---- MODULE Spec2Model ----
(***************************************************************************)
(* The connection / hub / store fan-out engine of go-chat                  *)
(* (chat-app/internal/websocket: Hub, Client; internal/cache: RedisClient).*)
(* One hub event loop, a reader and a writer per connection, the per-      *)
(* connection outbound queue (client.send), the hub inbound queue          *)
(* (hub.routeMessage) and the Redis keys the hub writes.                   *)
(***************************************************************************)
EXTENDS Integers, Sequences, FiniteSets, TLC

\* ------------------------------------------------------------------ bounds
NConn == 2          \* connections that are ever accepted
MaxInputs == 1      \* peer events in one behaviour: frames sent, transports failing
FairInputs == 2      \* the same in the behaviours of FairSpec
HistInputs == 1      \* ... of HistSpec
RoomlessInputs == 2  \* ... of RoomlessSpec
FaultInputs == 2     \* ... of FaultSpec
PanicInputs == 1     \* ... of PanicSpec
RaceInputs == 2      \* ... of RaceSpec
IdInputs == 3        \* ... of IdSpec
IdSendCap == 3      \* modelled capacity of client.send in IdSpec (make(chan []byte, 256))
IdRouteCap == 1     \* modelled capacity of hub.routeMessage in IdSpec
SendCap == 7        \* modelled capacity of client.send (make(chan *Message, 256)):
                    \* two registrations into one room send 4 + 4 envelopes to the first
RouteCap == 1       \* modelled capacity of hub.routeMessage (make(chan *Message, 256))
RaceCap == 2        \* ... in the behaviours of RaceSpec: a frame is read while the
                    \* one before it still waits for the hub
MaxEvict == 1       \* slow-consumer unregister tasks counted per connection

\* ------------------------------------------------------- program constants
maxRecentMessagesToStore == 50
maxRecentMessagesToSend == 20

Conns == 1..NConn
Usernames == {"alice", "bob"}
Rooms == {"r1", "r2"}
NoRoom == ""

\* message.go: the MessageType constants
TextMessageType == "text_message"
UserJoinedMessageType == "user_joined"
UserLeftMessageType == "user_left"
RoomStatsUpdateType == "room_stats_update"
RecentMessagesType == "recent_messages"
UserListUpdateType == "user_list_update"
GlobalUserCountUpdateType == "global_user_count_update"
ErrorMessageType == "error_message"
JoinRoomMessageType == "join_room"
LeaveRoomMessageType == "leave_room"
UserTypingMessageType == "user_typing"
RequestStatsType == "request_room_stats"
\* any other value of the type tag a peer may send
UnknownType == "bogus_type"

VARIABLES
    username,       \* Client.username ("" before the Client is constructed)
    currentRoomID,  \* Client.currentRoomID
    connPc,         \* "idle", "registering" (inside Hub.RegisterClient), "started"
    readerPc,       \* ReadPump: "off", "reading", "unregistering", "done"
    writerPc,       \* WritePump: "off", "running", "done"
    connOpen,       \* the transport: FALSE once conn.Close() ran
    send,           \* Client.send: the buffered envelopes
    closed,         \* Client.send has been closed
    wire,           \* the last frame WritePump wrote to the transport
    clients,        \* Hub.clients
    rooms,          \* Hub.rooms: a function from the room ids present to member sets
    routeMessage,   \* Hub.routeMessage
    evict,          \* pending "go func(cl) { h.unregister <- cl }" tasks per connection
    hubPending,     \* sends the hub has still to do while it waits in "client.send <- m"
    panicked,       \* a goroutine panicked (send on / close of a closed channel)
    globalUsers,    \* Redis set global:users
    roomUsers,      \* Redis sets room:<r>:users
    roomMessages,   \* Redis lists room:<r>:messages, newest at the head
    roomCount,      \* Redis counters room:<r>:message_count
    inputs,         \* peer events (frames, transport failures) still to come
    \* the hub keyed by user id (no store), with its own clients:
    idClients,      \* Hub.clients
    idRooms,        \* Hub.rooms: room id -> RoomDetail.clients
    idClientRooms,  \* Client.rooms
    idSend,         \* Client.send
    idClosed,       \* Client.send has been closed
    idMu,           \* Hub.mu: "free" or "locked" (held for writing by the hub goroutine)
    idPc,           \* the hub goroutine: "select", "blocked" (in a lock), "panicked"
    idRoute,        \* Hub.routeMessage
    idReader,       \* readPump: "off", "reading", "unregistering", "done"
    idInputs        \* peer events still to come

vars == <<username, currentRoomID, connPc, readerPc, writerPc, connOpen, send, closed,
          wire, clients, rooms, routeMessage, evict, hubPending, panicked,
          globalUsers, roomUsers, roomMessages, roomCount, inputs,
          idClients, idRooms, idClientRooms, idSend, idClosed, idMu, idPc, idRoute,
          idReader, idInputs>>

chatVars == <<username, currentRoomID, connPc, readerPc, writerPc, connOpen, send, closed,
              wire, clients, rooms, routeMessage, evict, hubPending, panicked,
              globalUsers, roomUsers, roomMessages, roomCount, inputs>>
idVars == <<idClients, idRooms, idClientRooms, idSend, idClosed, idMu, idPc, idRoute,
            idReader, idInputs>>

connVars == <<username, connPc, readerPc, writerPc, connOpen, wire>>
hubVars == <<clients, rooms, globalUsers, roomUsers, roomMessages, roomCount>>

\* -------------------------------------------------------------- envelopes
NoData == [users |-> {}, active |-> 0, count |-> 0, messages |-> <<>>]

\* websocket.Message. ts records who last set Timestamp ("client", "reader", "hub").
\* An entry of routeMessage is [msg, from, claimed]: msg is the Message; from (the
\* connection whose reader forwarded it) and claimed (the username the peer wrote
\* into the frame) are kept for stating properties and are read by no action.
Envelope(type, content, user, room, ts, system, data) ==
    [type |-> type, content |-> content, username |-> user, roomId |-> room,
     ts |-> ts, system |-> system, data |-> data]

\* json.Marshal(msg) as stored in room:<r>:messages: the tagged fields of Message
\* in declaration order.
MarshalMessage(m) ==
    <<m.type, m.content, m.username, m.roomId, m.ts, m.system>>

\* The content of a join_room frame the peer sends for room r.
JoinContent(r) ==
    CASE r = "r1" -> "{roomID:r1}"
      [] r = "r2" -> "{roomID:r2}"
      [] OTHER -> "{}"

\* json.Unmarshal([]byte(msg.Content), &joinData)
UnmarshalJoinRoomData(content) ==
    CASE content = "{roomID:r1}" -> [ok |-> TRUE, roomId |-> "r1"]
      [] content = "{roomID:r2}" -> [ok |-> TRUE, roomId |-> "r2"]
      [] content = "{}" -> [ok |-> TRUE, roomId |-> NoRoom]
      [] OTHER -> [ok |-> FALSE, roomId |-> NoRoom]

\* One send the hub performs: block is TRUE for "client.send <- m", FALSE for the
\* select with a default branch.
SendOp(c, e, block) == [to |-> c, env |-> e, block |-> block]

ConnSeq == [i \in 1..NConn |-> i]

\* the connections of set S as a sequence (map iteration order does not matter:
\* sends to different queues commute)
SeqOfConns(S) ==
    LET In(c) == c \in S
    IN SelectSeq(ConnSeq, In)

\* ------------------------------------------------------------------ store
\* AddRecentMessage with RPUSH in place of LPUSH
AddRecentMessage_Tail(list, messageJSON, maxMessages) ==
    LET pushed == Append(list, messageJSON)
    IN IF maxMessages > 0 /\ Len(pushed) > maxMessages
       THEN SubSeq(pushed, 1, maxMessages)
       ELSE pushed

\* AddRecentMessage without the LTRIM
AddRecentMessage_NoTrim(list, messageJSON, maxMessages) ==
    <<messageJSON>> \o list

\* RedisClient.AddRecentMessage: LPUSH, then LTRIM 0 maxMessages-1 when maxMessages > 0
AddRecentMessage(list, messageJSON, maxMessages) ==
    LET pushed == <<messageJSON>> \o list
    IN IF maxMessages > 0 /\ Len(pushed) > maxMessages
       THEN SubSeq(pushed, 1, maxMessages)
       ELSE pushed

\* GetRecentMessages reading the whole list
GetRecentMessages_All(list, count) ==
    list

\* RedisClient.GetRecentMessages: LRANGE 0 count-1, count <= 0 reads 10
GetRecentMessages(list, count) ==
    LET n == IF count <= 0 THEN 10 ELSE count
    IN IF Len(list) > n THEN SubSeq(list, 1, n) ELSE list

\* AddActiveUserToRoom removing a name that is already in the set
AddActiveUserToRoom_Toggle(users, name) ==
    IF name \in users THEN users \ {name} ELSE users \cup {name}

\* RedisClient.AddActiveUserToRoom: SADD room:<r>:users (the EXPIRE set with it does
\* not run out within a behaviour)
AddActiveUserToRoom(users, name) == users \cup {name}

\* IncrementMessageCounter starting the counter again
IncrementMessageCounter_Restart(count) == 1

\* RedisClient.IncrementMessageCounter: INCR room:<r>:message_count, the new value
\* (an absent key counts as 0)
IncrementMessageCounter(count) == count + 1

\* RedisClient.GetRoomStats: SCARD of the user set and the counter (0 when absent)
GetRoomStats(h, roomID) ==
    [active_users |-> Cardinality(h.roomUsers[roomID]),
     message_count |-> h.roomCount[roomID]]

\* -------------------------------------------------------------------- hub
\* The hub's state while it handles one event: its maps, the fields of the clients
\* it writes, the store, and ops, the sends it performs in order.
HubState ==
    [clients |-> clients, rooms |-> rooms, currentRoomID |-> currentRoomID,
     closed |-> closed, panic |-> FALSE,
     globalUsers |-> globalUsers, roomUsers |-> roomUsers,
     roomMessages |-> roomMessages, roomCount |-> roomCount, ops |-> <<>>]

NoClient == 0

\* findClientByUsername scanning every Client ever constructed, not h.clients
findClientByUsername_AnyConn(name) ==
    LET found == {c \in Conns : username[c] = name /\ connPc[c] = "started"}
    IN IF found = {} THEN {NoClient} ELSE found

\* Hub.findClientByUsername: the registered clients a scan of h.clients may return
\* (map iteration order is unspecified); NoClient when none has the name.
findClientByUsername(name) ==
    LET found == {c \in clients : username[c] = name}
    IN IF found = {} THEN {NoClient} ELSE found

\* "client.send <- &Message{Type: ErrorMessageType, ...}"
ErrorEnvelope(content, room) ==
    Envelope(ErrorMessageType, content, "", room, "hub", FALSE, NoData)

\* the error_message sent to every registered client
SendError_ToAll(h, c, content, room) ==
    LET allClients == SeqOfConns(h.clients)
    IN [h EXCEPT !.ops = @ \o [i \in 1..Len(allClients) |->
                                  SendOp(allClients[i], ErrorEnvelope(content, room),
                                         TRUE)]]

SendError(h, c, content, room) ==
    [h EXCEPT !.ops = @ \o <<SendOp(c, ErrorEnvelope(content, room), TRUE)>>]

\* broadcastToRoom iterating h.clients instead of h.rooms[message.RoomID]
broadcastToRoom_AllClients(h, message) ==
    IF message.roomId = NoRoom \/ message.roomId \notin DOMAIN h.rooms
    THEN h
    ELSE LET clientsToSend ==
                 SeqOfConns({c \in h.clients :
                     ~(message.type = UserTypingMessageType
                       /\ username[c] = message.username)})
         IN [h EXCEPT !.ops = @ \o [i \in 1..Len(clientsToSend) |->
                                       SendOp(clientsToSend[i], message, FALSE)]]

\* broadcastToRoom without the "continue" for user_typing
broadcastToRoom_NoTypingSkip(h, message) ==
    IF message.roomId = NoRoom \/ message.roomId \notin DOMAIN h.rooms
    THEN h
    ELSE LET clientsToSend == SeqOfConns(h.rooms[message.roomId])
         IN [h EXCEPT !.ops = @ \o [i \in 1..Len(clientsToSend) |->
                                       SendOp(clientsToSend[i], message, FALSE)]]

\* Hub.broadcastToRoom: the non-blocking sends to the snapshot of the room's members
broadcastToRoom(h, message) ==
    IF message.roomId = NoRoom \/ message.roomId \notin DOMAIN h.rooms
    THEN h
    ELSE LET clientsToSend ==
                 SeqOfConns({c \in h.rooms[message.roomId] :
                     ~(message.type = UserTypingMessageType
                       /\ username[c] = message.username)})
         IN [h EXCEPT !.ops = @ \o [i \in 1..Len(clientsToSend) |->
                                       SendOp(clientsToSend[i], message, FALSE)]]

\* fmt.Sprintf("User '%s' joined the room." / "User '%s' left the room.", username)
PresenceContent(msgType, name) ==
    CASE msgType = UserJoinedMessageType /\ name = "alice" -> "User 'alice' joined the room."
      [] msgType = UserJoinedMessageType /\ name = "bob" -> "User 'bob' joined the room."
      [] msgType = UserLeftMessageType /\ name = "alice" -> "User 'alice' left the room."
      [] msgType = UserLeftMessageType /\ name = "bob" -> "User 'bob' left the room."
      [] OTHER -> "User '' ..."

\* Hub.broadcastSystemMessageToRoom
broadcastSystemMessageToRoom(h, roomID, content, relevantUsername, msgType) ==
    IF roomID = NoRoom THEN h
    ELSE broadcastToRoom(h, Envelope(msgType, content, relevantUsername, roomID,
                                     "hub", TRUE, NoData))

\* Hub.broadcastUserList: the list is read from the store set room:<r>:users
broadcastUserList(h, roomID) ==
    IF roomID = NoRoom THEN h
    ELSE broadcastToRoom(h, Envelope(UserListUpdateType, "", "", roomID, "hub", TRUE,
                                     [NoData EXCEPT !.users = h.roomUsers[roomID]]))

\* the RoomStatsPayload envelope of broadcastRoomStats and of request_room_stats
RoomStatsEnvelope(h, roomID) ==
    LET stats == GetRoomStats(h, roomID)
    IN Envelope(RoomStatsUpdateType, "", "", roomID, "hub", TRUE,
                [NoData EXCEPT !.active = stats.active_users,
                               !.count = stats.message_count])

\* Hub.broadcastRoomStats
broadcastRoomStats(h, roomID) ==
    IF roomID = NoRoom THEN h
    ELSE broadcastToRoom(h, RoomStatsEnvelope(h, roomID))

\* Hub.broadcastGlobalUserCount: SCARD global:users to every client in h.clients
broadcastGlobalUserCount(h) ==
    LET countMsg == Envelope(GlobalUserCountUpdateType, "", "", NoRoom, "hub", TRUE,
                             [NoData EXCEPT !.count = Cardinality(h.globalUsers)])
        allClients == SeqOfConns(h.clients)
    IN [h EXCEPT !.ops = @ \o [i \in 1..Len(allClients) |->
                                  SendOp(allClients[i], countMsg, FALSE)]]

\* handleClientJoinRoom announcing the join to the joining client only after the
\* user list and the stats
handleClientJoinRoom_JoinerLast(h, client, roomID) ==
    IF roomID = NoRoom
    THEN SendError(h, client, "Invalid RoomID. Cannot join.", NoRoom)
    ELSE LET members == IF roomID \in DOMAIN h.rooms THEN h.rooms[roomID] ELSE {}
             h1 == [h EXCEPT
                      !.rooms = [r \in DOMAIN h.rooms \cup {roomID} |->
                                    IF r = roomID THEN members \cup {client}
                                    ELSE h.rooms[r]],
                      !.currentRoomID[client] = roomID,
                      !.roomUsers[roomID] = @ \cup {username[client]}]
             joined == Envelope(UserJoinedMessageType,
                                PresenceContent(UserJoinedMessageType, username[client]),
                                username[client], roomID, "hub", TRUE, NoData)
             others == SeqOfConns(h1.rooms[roomID] \ {client})
             h2 == [h1 EXCEPT !.ops = @ \o [i \in 1..Len(others) |->
                                               SendOp(others[i], joined, FALSE)]]
             h3 == broadcastRoomStats(broadcastUserList(h2, roomID), roomID)
         IN [h3 EXCEPT !.ops = @ \o <<SendOp(client, joined, FALSE)>>]

\* Hub.handleClientJoinRoom
handleClientJoinRoom(h, client, roomID) ==
    IF roomID = NoRoom
    THEN SendError(h, client, "Invalid RoomID. Cannot join.", NoRoom)
    ELSE LET members == IF roomID \in DOMAIN h.rooms THEN h.rooms[roomID] ELSE {}
             h1 == [h EXCEPT
                      !.rooms = [r \in DOMAIN h.rooms \cup {roomID} |->
                                    IF r = roomID THEN members \cup {client}
                                    ELSE h.rooms[r]],
                      !.currentRoomID[client] = roomID,
                      !.roomUsers[roomID] = AddActiveUserToRoom(@, username[client])]
             recentMsgJSONs == GetRecentMessages(h1.roomMessages[roomID],
                                                 maxRecentMessagesToSend)
             h2 == IF Len(recentMsgJSONs) > 0
                   THEN [h1 EXCEPT !.ops = @ \o
                           <<SendOp(client,
                                    Envelope(RecentMessagesType, "", "", roomID, "hub", TRUE,
                                             [NoData EXCEPT !.messages = recentMsgJSONs]),
                                    TRUE)>>]
                   ELSE h1
             h3 == broadcastSystemMessageToRoom(h2, roomID,
                       PresenceContent(UserJoinedMessageType, username[client]),
                       username[client], UserJoinedMessageType)
         IN broadcastRoomStats(broadcastUserList(h3, roomID), roomID)

\* handleClientLeaveRoom keeping the entry of a room it emptied
handleClientLeaveRoom_KeepsEmptyRoom(h, client, roomID, isDisconnect) ==
    IF roomID = NoRoom THEN h
    ELSE LET clientWasInRoomMap == roomID \in DOMAIN h.rooms /\ client \in h.rooms[roomID]
             h1 == IF clientWasInRoomMap
                   THEN [h EXCEPT !.rooms[roomID] = @ \ {client},
                                  !.roomUsers[roomID] = @ \ {username[client]}]
                   ELSE h
             h2 == IF clientWasInRoomMap
                   THEN broadcastRoomStats(
                          broadcastUserList(
                            broadcastSystemMessageToRoom(h1, roomID,
                                PresenceContent(UserLeftMessageType, username[client]),
                                username[client], UserLeftMessageType),
                            roomID),
                          roomID)
                   ELSE h1
         IN IF isDisconnect THEN h2 ELSE [h2 EXCEPT !.currentRoomID[client] = NoRoom]

\* handleClientLeaveRoom updating the store set only, not h.rooms
handleClientLeaveRoom_KeepsMember(h, client, roomID, isDisconnect) ==
    IF roomID = NoRoom THEN h
    ELSE LET h1 == [h EXCEPT !.roomUsers[roomID] = @ \ {username[client]}]
         IN IF isDisconnect THEN h1 ELSE [h1 EXCEPT !.currentRoomID[client] = NoRoom]

\* Hub.handleClientLeaveRoom
handleClientLeaveRoom(h, client, roomID, isDisconnect) ==
    IF roomID = NoRoom THEN h
    ELSE LET clientWasInRoomMap == roomID \in DOMAIN h.rooms /\ client \in h.rooms[roomID]
             left == h.rooms[roomID] \ {client}
             h1 == IF clientWasInRoomMap
                   THEN [h EXCEPT
                           !.rooms = IF left = {}
                                     THEN [r \in DOMAIN h.rooms \ {roomID} |-> h.rooms[r]]
                                     ELSE [h.rooms EXCEPT ![roomID] = left],
                           !.roomUsers[roomID] = @ \ {username[client]}]
                   ELSE h
             h2 == IF clientWasInRoomMap
                   THEN broadcastRoomStats(
                          broadcastUserList(
                            broadcastSystemMessageToRoom(h1, roomID,
                                PresenceContent(UserLeftMessageType, username[client]),
                                username[client], UserLeftMessageType),
                            roomID),
                          roomID)
                   ELSE h1
         IN IF isDisconnect THEN h2 ELSE [h2 EXCEPT !.currentRoomID[client] = NoRoom]

\* handleClientRegistration joining the initial room before the global count
handleClientRegistration_JoinFirst(h, client) ==
    LET h1 == [h EXCEPT !.clients = @ \cup {client},
                        !.globalUsers = @ \cup {username[client]}]
        h2 == IF h1.currentRoomID[client] # NoRoom
              THEN handleClientJoinRoom(h1, client, h1.currentRoomID[client])
              ELSE h1
    IN broadcastGlobalUserCount(h2)

\* Hub.handleClientRegistration
handleClientRegistration(h, client) ==
    LET h1 == [h EXCEPT !.clients = @ \cup {client},
                        !.globalUsers = @ \cup {username[client]}]
        h2 == broadcastGlobalUserCount(h1)
    IN IF h2.currentRoomID[client] # NoRoom
       THEN handleClientJoinRoom(h2, client, h2.currentRoomID[client])
       ELSE h2

\* handleClientUnregistration without the test "isRegistered"
handleClientUnregistration_NoCheck(h, client) ==
    LET h1 == [h EXCEPT !.clients = @ \ {client},
                        !.closed[client] = TRUE,
                        !.panic = h.closed[client]]
        h2 == IF h1.currentRoomID[client] # NoRoom
              THEN handleClientLeaveRoom(h1, client, h1.currentRoomID[client], TRUE)
              ELSE h1
    IN broadcastGlobalUserCount([h2 EXCEPT !.globalUsers = @ \ {username[client]}])

\* handleClientUnregistration broadcasting the global count before the room leave
handleClientUnregistration_CountFirst(h, client) ==
    IF client \notin h.clients THEN h
    ELSE LET h1 == [h EXCEPT !.clients = @ \ {client},
                             !.closed[client] = TRUE,
                             !.panic = h.closed[client],
                             !.globalUsers = @ \ {username[client]}]
             h2 == broadcastGlobalUserCount(h1)
         IN IF h2.currentRoomID[client] # NoRoom
            THEN handleClientLeaveRoom(h2, client, h2.currentRoomID[client], TRUE)
            ELSE h2

\* Hub.handleClientUnregistration
handleClientUnregistration(h, client) ==
    IF client \notin h.clients THEN h
    ELSE LET h1 == [h EXCEPT !.clients = @ \ {client},
                             !.closed[client] = TRUE,
                             !.panic = h.closed[client]]
             h2 == IF h1.currentRoomID[client] # NoRoom
                   THEN handleClientLeaveRoom(h1, client, h1.currentRoomID[client], TRUE)
                   ELSE h1
         IN broadcastGlobalUserCount([h2 EXCEPT !.globalUsers = @ \ {username[client]}])

\* Hub.handleIncomingMessage, with client the result of findClientByUsername
handleIncomingMessage(h, received, client) ==
    LET msg == [received EXCEPT !.ts = "hub"]
    IN IF client = NoClient THEN h
       ELSE CASE msg.type = TextMessageType ->
                   IF msg.roomId = NoRoom \/ msg.username = ""
                   THEN SendError(h, client,
                            "Your message could not be sent: RoomID or Username was missing.",
                            NoRoom)
                   ELSE LET text == [msg EXCEPT !.system = FALSE]
                            h1 == [h EXCEPT
                                     !.roomMessages[text.roomId] =
                                         AddRecentMessage(@, MarshalMessage(text),
                                                          maxRecentMessagesToStore),
                                     !.roomCount[text.roomId] =
                                         IncrementMessageCounter(@)]
                        IN broadcastRoomStats(broadcastToRoom(h1, text), text.roomId)
              [] msg.type = JoinRoomMessageType ->
                   LET joinData == UnmarshalJoinRoomData(msg.content)
                   IN IF ~joinData.ok
                      THEN SendError(h, client, "Invalid join room request format.", NoRoom)
                      ELSE IF joinData.roomId = NoRoom
                      THEN SendError(h, client, "Cannot join an empty RoomID.", NoRoom)
                      ELSE LET h1 == IF h.currentRoomID[client] # NoRoom
                                        /\ h.currentRoomID[client] # joinData.roomId
                                     THEN handleClientLeaveRoom(h, client,
                                              h.currentRoomID[client], FALSE)
                                     ELSE h
                           IN handleClientJoinRoom(h1, client, joinData.roomId)
              [] msg.type = LeaveRoomMessageType ->
                   IF h.currentRoomID[client] # NoRoom
                   THEN [handleClientLeaveRoom(h, client, h.currentRoomID[client], FALSE)
                           EXCEPT !.currentRoomID[client] = NoRoom]
                   ELSE h
              [] msg.type = UserTypingMessageType ->
                   IF msg.roomId # NoRoom /\ msg.username # ""
                   THEN broadcastToRoom(h, msg)
                   ELSE h
              [] msg.type = RequestStatsType ->
                   LET targetRoomID == IF msg.roomId = NoRoom
                                       THEN h.currentRoomID[client]
                                       ELSE msg.roomId
                   IN IF targetRoomID = NoRoom
                      THEN SendError(h, client, "RoomID required for stats request.", NoRoom)
                      ELSE [h EXCEPT !.ops = @ \o
                              <<SendOp(client, RoomStatsEnvelope(h, targetRoomID), TRUE)>>]
              [] OTHER ->
                   SendError(h, client, "Unknown message type received", NoRoom)

\* the text_message handler returning when AddRecentMessage fails
handleTextAddError_Aborts(h, received, client) == h

\* Hub.handleIncomingMessage for a text_message when AddRecentMessage returns an
\* error (pipe.Exec failed, nothing was executed): the error is logged and the
\* handler goes on with the counter and the broadcasts.
handleTextAddError(h, received, client) ==
    LET text == [received EXCEPT !.ts = "hub", !.system = FALSE]
        h1 == [h EXCEPT !.roomCount[text.roomId] = IncrementMessageCounter(@)]
    IN broadcastRoomStats(broadcastToRoom(h1, text), text.roomId)

\* Hub.handleIncomingMessage for a text_message when IncrementMessageCounter
\* returns an error: it is logged and the handler goes on with the broadcasts.
handleTextIncrError(h, received, client) ==
    LET text == [received EXCEPT !.ts = "hub", !.system = FALSE]
        h1 == [h EXCEPT !.roomMessages[text.roomId] =
                            AddRecentMessage(@, MarshalMessage(text),
                                             maxRecentMessagesToStore)]
    IN broadcastRoomStats(broadcastToRoom(h1, text), text.roomId)

\* "Failed to get room stats for " + targetRoomID
StatsErrorContent(roomID) ==
    IF roomID = "r1" THEN "Failed to get room stats for r1"
    ELSE "Failed to get room stats for r2"

\* Hub.handleIncomingMessage for a request_room_stats with a target room when
\* GetRoomStats returns an error: the client is sent an error_message.
handleStatsError(h, received, client) ==
    LET targetRoomID == IF received.roomId = NoRoom
                        THEN h.currentRoomID[client]
                        ELSE received.roomId
    IN SendError(h, client, StatsErrorContent(targetRoomID), targetRoomID)

\* Hub.handleClientJoinRoom for a non-empty room when GetRecentMessages returns an
\* error: it is logged, no history is sent, the join goes on.
handleClientJoinRoomGetError(h, client, roomID) ==
    LET members == IF roomID \in DOMAIN h.rooms THEN h.rooms[roomID] ELSE {}
        h1 == [h EXCEPT
                 !.rooms = [r \in DOMAIN h.rooms \cup {roomID} |->
                               IF r = roomID THEN members \cup {client}
                               ELSE h.rooms[r]],
                 !.currentRoomID[client] = roomID,
                 !.roomUsers[roomID] = AddActiveUserToRoom(@, username[client])]
        h3 == broadcastSystemMessageToRoom(h1, roomID,
                  PresenceContent(UserJoinedMessageType, username[client]),
                  username[client], UserJoinedMessageType)
    IN broadcastRoomStats(broadcastUserList(h3, roomID), roomID)

\* Hub.handleClientRegistration of a client with an initial room when
\* GetRecentMessages returns an error
handleClientRegistrationGetError(h, client) ==
    LET h1 == [h EXCEPT !.clients = @ \cup {client},
                        !.globalUsers = @ \cup {username[client]}]
        h2 == broadcastGlobalUserCount(h1)
    IN handleClientJoinRoomGetError(h2, client, h2.currentRoomID[client])

\* The sends of ops performed in order on the queues q: a send on a closed channel
\* panics; a send finding room appends; "client.send <- m" on a full queue waits
\* (the remaining sends stay pending); the select's default branch starts
\* "go func(cl *Client) { h.unregister <- cl }(c)" and goes on.
RECURSIVE Deliver(_, _, _, _)
Deliver(ops, q, ev, cl) ==
    IF ops = <<>>
    THEN [send |-> q, evict |-> ev, pending |-> <<>>, panic |-> FALSE]
    ELSE LET op == Head(ops)
         IN IF cl[op.to]
            THEN [send |-> q, evict |-> ev, pending |-> <<>>, panic |-> TRUE]
            ELSE IF Len(q[op.to]) < SendCap
            THEN Deliver(Tail(ops), [q EXCEPT ![op.to] = Append(@, op.env)], ev, cl)
            ELSE IF op.block
            THEN [send |-> q, evict |-> ev, pending |-> ops, panic |-> FALSE]
            ELSE Deliver(Tail(ops), q,
                         [ev EXCEPT ![op.to] = IF @ < MaxEvict THEN @ + 1 ELSE @], cl)

\* The effect of one hub handler that ended in state h
HubDoes(h) ==
    LET d == Deliver(h.ops, send, evict, h.closed)
    IN /\ clients' = h.clients
       /\ rooms' = h.rooms
       /\ currentRoomID' = h.currentRoomID
       /\ closed' = h.closed
       /\ globalUsers' = h.globalUsers
       /\ roomUsers' = h.roomUsers
       /\ roomMessages' = h.roomMessages
       /\ roomCount' = h.roomCount
       /\ send' = d.send
       /\ evict' = d.evict
       /\ hubPending' = d.pending
       /\ panicked' = (h.panic \/ d.panic)

\* Hub.Run is at its select: no handler is waiting in a send, nothing panicked
HubAtSelect == hubPending = <<>> /\ ~panicked

\* ---------------------------------------------------------------- frames
NoFrame == Envelope("none", "", "", NoRoom, "none", FALSE, NoData)
CloseFrame == Envelope("close", "", "", NoRoom, "none", FALSE, NoData)

\* The username a peer writes into its frames: the first connection's peer claims
\* to be bob (it authenticated as alice), the others leave the field empty.
ClaimedBy(c) == IF c = 1 THEN "bob" ELSE ""

\* The JSON frames the peer of c may send: any type tag, any room id.
ClientFrames(c) ==
    {Envelope(TextMessageType, "hi", ClaimedBy(c), r, "client", FALSE, NoData) :
        r \in Rooms \cup {NoRoom}}
    \cup {Envelope(UserTypingMessageType, "start", ClaimedBy(c), r, "client", FALSE,
                   NoData) : r \in Rooms \cup {NoRoom}}
    \cup {Envelope(RequestStatsType, "", ClaimedBy(c), r, "client", FALSE, NoData) :
        r \in Rooms \cup {NoRoom}}
    \cup {Envelope(JoinRoomMessageType, content, ClaimedBy(c), NoRoom, "client", FALSE,
                   NoData) :
        content \in {JoinContent(r) : r \in Rooms \cup {NoRoom}} \cup {"{bad"}}
    \cup {Envelope(t, "", ClaimedBy(c), NoRoom, "client", FALSE, NoData) :
        t \in {LeaveRoomMessageType, UnknownType}}

\* StampFrame setting Username only when the frame left it empty
StampFrame_KeepClaimed(c, frame) ==
    LET msg == [frame EXCEPT !.username = IF @ = "" THEN username[c] ELSE @,
                             !.ts = "reader"]
    IN IF msg.roomId = NoRoom
          /\ msg.type \in {TextMessageType, UserTypingMessageType, RequestStatsType}
       THEN [msg EXCEPT !.roomId = currentRoomID[c]]
       ELSE msg

\* Client.ReadPump, from json.Unmarshal to the envelope handed to the hub: username
\* and timestamp are overwritten, an empty roomId of a current-room type is filled in
StampFrame(c, frame) ==
    LET msg == [frame EXCEPT !.username = username[c], !.ts = "reader"]
    IN IF msg.roomId = NoRoom
          /\ msg.type \in {TextMessageType, UserTypingMessageType, RequestStatsType}
       THEN [msg EXCEPT !.roomId = currentRoomID[c]]
       ELSE msg

\* ------------------------------------------- the hub keyed by user id
\* The second Hub of the repository: clients carry a userID and a set of rooms,
\* the hub's maps are guarded by the mutex Hub.mu, there is no store.

\* Client.userID
UserID(c) == IF c = 1 THEN "u1" ELSE "u2"

\* WebsocketMessage: Type, the user it is from or about, the room
WsMsg(type, userID, roomID) == [type |-> type, clientId |-> userID, roomId |-> roomID]

\* The hub's state while it handles one event; pc is "run" while the goroutine
\* runs, "blocked" once it waits for a lock, "panicked" after a send on a closed
\* channel
IdHubState ==
    [clients |-> idClients, rooms |-> idRooms, clientRooms |-> idClientRooms,
     send |-> idSend, closed |-> idClosed, mu |-> idMu, pc |-> "run"]

\* h.mu.Lock(): a sync.RWMutex is not reentrant, the caller waits while it is held
Lock(h) ==
    IF h.pc # "run" THEN h
    ELSE IF h.mu = "locked" THEN [h EXCEPT !.pc = "blocked"]
    ELSE [h EXCEPT !.mu = "locked"]

\* h.mu.Unlock()
Unlock(h) == IF h.pc # "run" THEN h ELSE [h EXCEPT !.mu = "free"]

\* h.mu.RLock() ... h.mu.RUnlock() around one read: the caller waits while the
\* mutex is held for writing
RLocked(h) ==
    IF h.pc # "run" THEN h
    ELSE IF h.mu = "locked" THEN [h EXCEPT !.pc = "blocked"]
    ELSE h

\* the loop of broadcastToRoom: "select { case client.send <- messageBytes: default: }"
RECURSIVE SendToEach(_, _, _)
SendToEach(h, cs, m) ==
    IF cs = <<>> \/ h.pc # "run" THEN h
    ELSE LET c == Head(cs)
             h1 == IF h.closed[c] THEN [h EXCEPT !.pc = "panicked"]
                   ELSE IF Len(h.send[c]) < IdSendCap
                   THEN [h EXCEPT !.send[c] = Append(@, m)]
                   ELSE h
         IN SendToEach(h1, Tail(cs), m)

\* Hub.broadcastToRoom of the hub keyed by user id
broadcastToRoomById(h, roomID, wsMsg, excludeClient) ==
    LET h1 == RLocked(h)
    IN IF h1.pc # "run" \/ roomID \notin DOMAIN h1.rooms THEN h1
       ELSE SendToEach(h1, SeqOfConns(h1.rooms[roomID] \ {excludeClient}), wsMsg)

\* Hub.broadcastSystemMessage
broadcastSystemMessage(h, roomID, relevantUserID, messageType) ==
    broadcastToRoomById(h, roomID, WsMsg(messageType, relevantUserID, roomID), NoClient)

\* Hub.handleRegister
handleRegister(h, client) ==
    LET h1 == Lock(h)
    IN IF h1.pc # "run" THEN h1
       ELSE Unlock([h1 EXCEPT !.clients = @ \cup {client}])

\* the orders in which "for roomID := range client.rooms" may visit the rooms
RoomOrders(S) ==
    {o \in [1..Cardinality(S) -> S] : {o[i] : i \in 1..Cardinality(S)} = S}

\* the loop of handleUnregister over client.rooms, visited in the given order
RECURSIVE LeaveRooms(_, _, _)
LeaveRooms(h, client, order) ==
    IF order = <<>> \/ h.pc # "run" THEN h
    ELSE LET roomID == Head(order)
             h1 == IF roomID \in DOMAIN h.rooms
                   THEN broadcastSystemMessage(
                            [h EXCEPT !.rooms[roomID] = @ \ {client}],
                            roomID, UserID(client), "user_left")
                   ELSE h
         IN LeaveRooms(h1, client, Tail(order))

\* Hub.handleUnregister: h.mu is held from the first line to the last
handleUnregister(h, client, order) ==
    LET h1 == Lock(h)
    IN IF h1.pc # "run" THEN h1
       ELSE IF client \notin h1.clients THEN Unlock(h1)
       ELSE Unlock(LeaveRooms([h1 EXCEPT !.clients = @ \ {client},
                                         !.closed[client] = TRUE],
                              client, order))

\* Hub.handleJoinRoom
handleJoinRoom(h, client, roomID) ==
    LET h1 == Lock(h)
    IN IF h1.pc # "run" THEN h1
       ELSE LET h2 == Unlock([h1 EXCEPT
                         !.rooms = [r \in DOMAIN h1.rooms \cup {roomID} |->
                                       IF r \in DOMAIN h1.rooms THEN h1.rooms[r] ELSE {}]])
                h3 == [h2 EXCEPT !.rooms[roomID] = @ \cup {client},
                                 !.clientRooms[client] = @ \cup {roomID}]
            IN broadcastSystemMessage(h3, roomID, UserID(client), "user_joined")

\* Hub.handleLeaveRoom
handleLeaveRoom(h, client, roomID) ==
    LET h1 == RLocked(h)
    IN IF h1.pc # "run" \/ roomID \notin DOMAIN h1.rooms THEN h1
       ELSE LET h2 == [h1 EXCEPT !.rooms[roomID] = @ \ {client},
                                 !.clientRooms[client] = @ \ {roomID}]
            IN broadcastSystemMessage(h2, roomID, UserID(client), "user_left")

\* Hub.findClientByUserID: the registered clients a scan of h.clients may return
findClientByUserID(userID) ==
    LET found == {c \in idClients : UserID(c) = userID}
    IN IF found = {} THEN {NoClient} ELSE found

\* Hub.handleRouteMessage, with client the result of findClientByUserID
handleRouteMessage(h, wsMsg, client) ==
    CASE wsMsg.type = "send_message" ->
            broadcastToRoomById(h, wsMsg.roomId,
                                WsMsg("new_message", wsMsg.clientId, wsMsg.roomId),
                                NoClient)
      [] wsMsg.type = "join_room" ->
            LET h1 == RLocked(h)
            IN IF h1.pc # "run" \/ client = NoClient THEN h1
               ELSE handleJoinRoom(h1, client, wsMsg.roomId)
      [] wsMsg.type = "leave_room" ->
            LET h1 == RLocked(h)
            IN IF h1.pc # "run" \/ client = NoClient THEN h1
               ELSE handleLeaveRoom(h1, client, wsMsg.roomId)
      [] OTHER -> h

\* The effect of one handler of this hub that ended in state h
IdHubDoes(h) ==
    /\ idClients' = h.clients
    /\ idRooms' = h.rooms
    /\ idClientRooms' = h.clientRooms
    /\ idSend' = h.send
    /\ idClosed' = h.closed
    /\ idMu' = h.mu
    /\ idPc' = IF h.pc = "run" THEN "select" ELSE h.pc

\* The state after NewHub() of this hub, with n peer events to come
IdStart(n) ==
    /\ idClients = {}
    /\ idRooms = [r \in {} |-> {}]
    /\ idClientRooms = [c \in Conns |-> {}]
    /\ idSend = [c \in Conns |-> <<>>]
    /\ idClosed = [c \in Conns |-> FALSE]
    /\ idMu = "free"
    /\ idPc = "select"
    /\ idRoute = <<>>
    /\ idReader = [c \in Conns |-> "off"]
    /\ idInputs = n

\* Hub.Run "case client := <-h.register" with handleRegister; the pumps of the
\* client run from then on
IdHubRegister(c) ==
    /\ idPc = "select"
    /\ idReader[c] = "off"
    /\ \A d \in Conns : d < c => idReader[d] # "off"
    /\ IdHubDoes(handleRegister(IdHubState, c))
    /\ idReader' = [idReader EXCEPT ![c] = "reading"]
    /\ UNCHANGED <<idRoute, idInputs>>
    /\ UNCHANGED chatVars

\* The frames a peer may send: the three types, any room
IdFrames ==
    {[type |-> t, roomId |-> r] : t \in {"send_message", "join_room", "leave_room"},
                                  r \in Rooms}

\* Client.readPump: one frame read, ClientID set, "c.hub.routeMessage <- &wsMsg"
IdReaderRead(c, frame) ==
    /\ idReader[c] = "reading"
    /\ idInputs > 0
    /\ Len(idRoute) < IdRouteCap
    /\ idInputs' = idInputs - 1
    /\ idRoute' = Append(idRoute, WsMsg(frame.type, UserID(c), frame.roomId))
    /\ UNCHANGED <<idClients, idRooms, idClientRooms, idSend, idClosed, idMu, idPc,
                   idReader>>
    /\ UNCHANGED chatVars

\* Client.readPump: ReadMessage fails; the deferred function starts
\* "c.hub.unregister <- c"
IdReaderError(c) ==
    /\ idReader[c] = "reading"
    /\ idInputs > 0
    /\ idInputs' = idInputs - 1
    /\ idReader' = [idReader EXCEPT ![c] = "unregistering"]
    /\ UNCHANGED <<idClients, idRooms, idClientRooms, idSend, idClosed, idMu, idPc,
                   idRoute>>
    /\ UNCHANGED chatVars

\* Hub.Run "case wsMsg := <-h.routeMessage" with handleRouteMessage
IdHubMessage ==
    /\ idPc = "select"
    /\ idRoute # <<>>
    /\ \E client \in findClientByUserID(Head(idRoute).clientId) :
          IdHubDoes(handleRouteMessage(IdHubState, Head(idRoute), client))
    /\ idRoute' = Tail(idRoute)
    /\ UNCHANGED <<idReader, idInputs>>
    /\ UNCHANGED chatVars

\* Hub.Run "case client := <-h.unregister" with handleUnregister
IdHubUnregister(c) ==
    /\ idPc = "select"
    /\ idReader[c] = "unregistering"
    /\ \E order \in RoomOrders(idClientRooms[c]) :
          IdHubDoes(handleUnregister(IdHubState, c, order))
    /\ idReader' = [idReader EXCEPT ![c] = "done"]
    /\ UNCHANGED <<idRoute, idInputs>>
    /\ UNCHANGED chatVars

\* Client.writePump: one receive from c.send; what is queued goes into the same
\* websocket message
IdWriterWrite(c) ==
    /\ idReader[c] # "off"
    /\ idSend[c] # <<>>
    /\ idSend' = [idSend EXCEPT ![c] = <<>>]
    /\ UNCHANGED <<idClients, idRooms, idClientRooms, idClosed, idMu, idPc, idRoute,
                   idReader, idInputs>>
    /\ UNCHANGED chatVars

IdNext ==
    \/ \E c \in Conns : IdHubRegister(c)
    \/ \E c \in Conns : \E frame \in IdFrames : IdReaderRead(c, frame)
    \/ \E c \in Conns : IdReaderError(c)
    \/ IdHubMessage
    \/ \E c \in Conns : IdHubUnregister(c)
    \/ \E c \in Conns : IdWriterWrite(c)

\* -------------------------------------------------------------- actions
\* The query parameters of the upgrade request. Usernames and room ids are
\* interchangeable, so the first connection is alice in r1.
NamesOf(c) == IF c = 1 THEN {"alice"} ELSE Usernames
RoomsOf(c) == IF c = 1 THEN {"r1"} ELSE Rooms

\* The state after NewHub() and before any connection, with n peer events to come,
\* the store holding the lists msgs and the counters counts
ChatStart(n, msgs, counts) ==
    /\ username = [c \in Conns |-> ""]
    /\ currentRoomID = [c \in Conns |-> NoRoom]
    /\ connPc = [c \in Conns |-> "idle"]
    /\ readerPc = [c \in Conns |-> "off"]
    /\ writerPc = [c \in Conns |-> "off"]
    /\ connOpen = [c \in Conns |-> FALSE]
    /\ send = [c \in Conns |-> <<>>]
    /\ closed = [c \in Conns |-> FALSE]
    /\ wire = [c \in Conns |-> NoFrame]
    /\ clients = {}
    /\ rooms = [r \in {} |-> {}]
    /\ routeMessage = <<>>
    /\ evict = [c \in Conns |-> 0]
    /\ hubPending = <<>>
    /\ panicked = FALSE
    /\ globalUsers = {}
    /\ roomUsers = [r \in Rooms |-> {}]
    /\ roomMessages = msgs
    /\ roomCount = counts
    /\ inputs = n

\* ... with the hub keyed by user id idle
StartWith(n, msgs, counts) == ChatStart(n, msgs, counts) /\ IdStart(0)

\* ... with an empty store
Start(n) == StartWith(n, [r \in Rooms |-> <<>>], [r \in Rooms |-> 0])

\* the hub keyed by user id started, the other one idle
IdInit == ChatStart(0, [r \in Rooms |-> <<>>], [r \in Rooms |-> 0]) /\ IdStart(IdInputs)

IdSpec == IdInit /\ [][IdNext]_vars

Init == Start(MaxInputs)

\* ChatHandler.ServeWs up to the call of Hub.RegisterClient: the upgrade succeeded,
\* NewClient(hub, conn, name, room) with the non-empty query parameters.
\* Connections are numbered in the order they are accepted.
ServeWs(c, name, room) ==
    /\ ~panicked
    /\ connPc[c] = "idle"
    /\ \A d \in Conns : d < c => connPc[d] # "idle"
    /\ connPc' = [connPc EXCEPT ![c] = "registering"]
    /\ username' = [username EXCEPT ![c] = name]
    /\ currentRoomID' = [currentRoomID EXCEPT ![c] = room]
    /\ connOpen' = [connOpen EXCEPT ![c] = TRUE]
    /\ UNCHANGED <<readerPc, writerPc, send, closed, wire, clients, rooms, routeMessage,
                   evict, hubPending, panicked, globalUsers, roomUsers, roomMessages,
                   roomCount, inputs>>
    /\ UNCHANGED idVars

\* Hub.Run "case client := <-h.register" with handleClientRegistration; RegisterClient
\* returns and ServeWs starts the two pumps.
HubRegister(c) ==
    /\ HubAtSelect
    /\ connPc[c] = "registering"
    /\ HubDoes(handleClientRegistration(HubState, c))
    /\ connPc' = [connPc EXCEPT ![c] = "started"]
    /\ readerPc' = [readerPc EXCEPT ![c] = "reading"]
    /\ writerPc' = [writerPc EXCEPT ![c] = "running"]
    /\ UNCHANGED <<username, connOpen, wire, routeMessage, inputs>>
    /\ UNCHANGED idVars

\* RegisterClient giving up without close(client.send) and conn.Close()
RegisterTimeout_KeepsOpen(c) ==
    /\ ~panicked
    /\ inputs > 0
    /\ inputs' = inputs - 1
    /\ connPc[c] = "registering"
    /\ connPc' = [connPc EXCEPT ![c] = "started"]
    /\ readerPc' = [readerPc EXCEPT ![c] = "reading"]
    /\ writerPc' = [writerPc EXCEPT ![c] = "running"]
    /\ UNCHANGED <<username, currentRoomID, send, wire, clients, rooms, routeMessage,
                   evict, hubPending, globalUsers, roomUsers, roomMessages, roomCount,
                   closed, panicked, connOpen>>
    /\ UNCHANGED idVars

\* Hub.RegisterClient "case <-time.After(2 * time.Second)": the queue and the
\* transport are closed; ServeWs starts the two pumps all the same.
RegisterTimeout(c) ==
    /\ ~panicked
    /\ inputs > 0
    /\ inputs' = inputs - 1
    /\ connPc[c] = "registering"
    /\ connPc' = [connPc EXCEPT ![c] = "started"]
    /\ closed' = [closed EXCEPT ![c] = TRUE]
    /\ panicked' = closed[c]
    /\ connOpen' = [connOpen EXCEPT ![c] = FALSE]
    /\ readerPc' = [readerPc EXCEPT ![c] = "reading"]
    /\ writerPc' = [writerPc EXCEPT ![c] = "running"]
    /\ UNCHANGED <<username, currentRoomID, send, wire, clients, rooms, routeMessage,
                   evict, hubPending, globalUsers, roomUsers, roomMessages, roomCount>>
    /\ UNCHANGED idVars

\* Hub.Run "case client := <-h.unregister", sent by the deferred function of
\* ReadPump, which then closes the transport
HubUnregisterReader(c) ==
    /\ HubAtSelect
    /\ readerPc[c] = "unregistering"
    /\ HubDoes(handleClientUnregistration(HubState, c))
    /\ readerPc' = [readerPc EXCEPT ![c] = "done"]
    /\ connOpen' = [connOpen EXCEPT ![c] = FALSE]
    /\ UNCHANGED <<username, connPc, writerPc, wire, routeMessage, inputs>>
    /\ UNCHANGED idVars

\* Hub.Run "case client := <-h.unregister", sent by a slow-consumer task
HubUnregisterEvict(c) ==
    /\ HubAtSelect
    /\ evict[c] > 0
    /\ LET h == handleClientUnregistration(HubState, c)
           d == Deliver(h.ops, send, [evict EXCEPT ![c] = @ - 1], h.closed)
       IN /\ clients' = h.clients
          /\ rooms' = h.rooms
          /\ currentRoomID' = h.currentRoomID
          /\ closed' = h.closed
          /\ globalUsers' = h.globalUsers
          /\ roomUsers' = h.roomUsers
          /\ roomMessages' = h.roomMessages
          /\ roomCount' = h.roomCount
          /\ send' = d.send
          /\ evict' = d.evict
          /\ hubPending' = d.pending
          /\ panicked' = (h.panic \/ d.panic)
    /\ UNCHANGED <<connVars, routeMessage, inputs>>
    /\ UNCHANGED idVars

\* Hub.Run "case message := <-h.routeMessage" with handleIncomingMessage
HubMessage ==
    /\ HubAtSelect
    /\ routeMessage # <<>>
    /\ \E client \in findClientByUsername(Head(routeMessage).msg.username) :
          HubDoes(handleIncomingMessage(HubState, Head(routeMessage).msg, client))
    /\ routeMessage' = Tail(routeMessage)
    /\ UNCHANGED <<connVars, inputs>>
    /\ UNCHANGED idVars

\* Hub.Run "case message := <-h.routeMessage" for a text_message whose
\* AddRecentMessage call fails
HubMessageAddError ==
    /\ HubAtSelect
    /\ routeMessage # <<>>
    /\ LET msg == Head(routeMessage).msg
       IN /\ msg.type = TextMessageType
          /\ msg.roomId # NoRoom
          /\ msg.username # ""
          /\ \E client \in findClientByUsername(msg.username) :
                /\ client # NoClient
                /\ HubDoes(handleTextAddError(HubState, msg, client))
    /\ routeMessage' = Tail(routeMessage)
    /\ UNCHANGED <<connVars, inputs>>
    /\ UNCHANGED idVars

\* Hub.Run "case message := <-h.routeMessage" for a text_message whose
\* IncrementMessageCounter call fails
HubMessageIncrError ==
    /\ HubAtSelect
    /\ routeMessage # <<>>
    /\ LET msg == Head(routeMessage).msg
       IN /\ msg.type = TextMessageType
          /\ msg.roomId # NoRoom
          /\ msg.username # ""
          /\ \E client \in findClientByUsername(msg.username) :
                /\ client # NoClient
                /\ HubDoes(handleTextIncrError(HubState, msg, client))
    /\ routeMessage' = Tail(routeMessage)
    /\ UNCHANGED <<connVars, inputs>>
    /\ UNCHANGED idVars

\* Hub.Run "case message := <-h.routeMessage" for a request_room_stats whose
\* GetRoomStats call fails
HubMessageStatsError ==
    /\ HubAtSelect
    /\ routeMessage # <<>>
    /\ LET msg == Head(routeMessage).msg
       IN /\ msg.type = RequestStatsType
          /\ \E client \in findClientByUsername(msg.username) :
                /\ client # NoClient
                /\ msg.roomId # NoRoom \/ currentRoomID[client] # NoRoom
                /\ HubDoes(handleStatsError(HubState, msg, client))
    /\ routeMessage' = Tail(routeMessage)
    /\ UNCHANGED <<connVars, inputs>>
    /\ UNCHANGED idVars

\* Hub.Run "case client := <-h.register" when GetRecentMessages fails in the join
HubRegisterGetError(c) ==
    /\ HubAtSelect
    /\ connPc[c] = "registering"
    /\ currentRoomID[c] # NoRoom
    /\ HubDoes(handleClientRegistrationGetError(HubState, c))
    /\ connPc' = [connPc EXCEPT ![c] = "started"]
    /\ readerPc' = [readerPc EXCEPT ![c] = "reading"]
    /\ writerPc' = [writerPc EXCEPT ![c] = "running"]
    /\ UNCHANGED <<username, connOpen, wire, routeMessage, inputs>>
    /\ UNCHANGED idVars

\* The hub waiting in "client.send <- m" goes on once the queue has room
HubResume ==
    /\ ~panicked
    /\ hubPending # <<>>
    /\ Len(send[Head(hubPending).to]) < SendCap \/ closed[Head(hubPending).to]
    /\ LET d == Deliver(hubPending, send, evict, closed)
       IN /\ send' = d.send
          /\ evict' = d.evict
          /\ hubPending' = d.pending
          /\ panicked' = d.panic
    /\ UNCHANGED <<connVars, currentRoomID, closed, hubVars, routeMessage, inputs>>
    /\ UNCHANGED idVars

\* ReadPump forwarding with a plain "c.hub.routeMessage <- &msg"
ReaderRead_Blocking(c, frame) ==
    /\ ~panicked
    /\ readerPc[c] = "reading"
    /\ connOpen[c]
    /\ inputs > 0
    /\ Len(routeMessage) < RouteCap
    /\ inputs' = inputs - 1
    /\ routeMessage' = Append(routeMessage, [msg |-> StampFrame(c, frame), from |-> c,
                                             claimed |-> frame.username])
    /\ UNCHANGED <<connVars, currentRoomID, send, closed, clients, rooms, evict,
                   hubPending, panicked, globalUsers, roomUsers, roomMessages, roomCount>>
    /\ UNCHANGED idVars

\* Client.ReadPump: one frame read, parsed, stamped and offered to hub.routeMessage,
\* a channel of capacity cap
ReaderForward(c, frame, cap) ==
    /\ ~panicked
    /\ readerPc[c] = "reading"
    /\ connOpen[c]
    /\ inputs > 0
    /\ inputs' = inputs - 1
    /\ routeMessage' =
          IF Len(routeMessage) < cap
          THEN Append(routeMessage, [msg |-> StampFrame(c, frame), from |-> c,
                                     claimed |-> frame.username])
          ELSE routeMessage
    /\ UNCHANGED <<connVars, currentRoomID, send, closed, clients, rooms, evict,
                   hubPending, panicked, globalUsers, roomUsers, roomMessages, roomCount>>
    /\ UNCHANGED idVars

\* ... with the capacity of the behaviours of Spec
\* (dropped when that is full)
ReaderRead(c, frame) == ReaderForward(c, frame, RouteCap)

\* Client.ReadPump: a frame that is not JSON is skipped
ReaderSkipMalformed(c) ==
    /\ ~panicked
    /\ readerPc[c] = "reading"
    /\ connOpen[c]
    /\ inputs > 0
    /\ inputs' = inputs - 1
    /\ UNCHANGED <<connVars, currentRoomID, send, closed, clients, rooms, routeMessage,
                   evict, hubPending, panicked, globalUsers, roomUsers, roomMessages,
                   roomCount>>
    /\ UNCHANGED idVars

\* ReadPump deleting the client from h.clients itself when it exits
ReaderError_Unregisters(c) ==
    /\ ~panicked
    /\ readerPc[c] = "reading"
    /\ ~connOpen[c] \/ inputs > 0
    /\ inputs' = IF connOpen[c] THEN inputs - 1 ELSE inputs
    /\ readerPc' = [readerPc EXCEPT ![c] = "unregistering"]
    /\ clients' = clients \ {c}
    /\ UNCHANGED <<username, currentRoomID, connPc, writerPc, connOpen, send, closed,
                   wire, rooms, routeMessage, evict, hubPending, panicked,
                   globalUsers, roomUsers, roomMessages, roomCount>>
    /\ UNCHANGED idVars

\* Client.ReadPump: conn.ReadMessage fails (a peer event: close, oversize frame,
\* silence past the read deadline; or the transport was closed on this side); the
\* deferred function starts "c.hub.unregister <- c"
ReaderError(c) ==
    /\ ~panicked
    /\ readerPc[c] = "reading"
    /\ ~connOpen[c] \/ inputs > 0
    /\ inputs' = IF connOpen[c] THEN inputs - 1 ELSE inputs
    /\ readerPc' = [readerPc EXCEPT ![c] = "unregistering"]
    /\ UNCHANGED <<username, currentRoomID, connPc, writerPc, connOpen, send, closed,
                   wire, clients, rooms, routeMessage, evict, hubPending, panicked,
                   globalUsers, roomUsers, roomMessages, roomCount>>
    /\ UNCHANGED idVars

\* WritePump taking the newest envelope of the queue
WriterWrite_Newest(c) ==
    /\ ~panicked
    /\ writerPc[c] = "running"
    /\ send[c] # <<>>
    /\ connOpen[c]
    /\ wire' = [wire EXCEPT ![c] = send[c][Len(send[c])]]
    /\ send' = [send EXCEPT ![c] = SubSeq(@, 1, Len(@) - 1)]
    /\ UNCHANGED <<username, currentRoomID, connPc, readerPc, writerPc, connOpen, closed,
                   clients, rooms, routeMessage, evict, hubPending, panicked,
                   globalUsers, roomUsers, roomMessages, roomCount, inputs>>
    /\ UNCHANGED idVars

\* Client.WritePump: one envelope received from c.send and written with WriteJSON
WriterWrite(c) ==
    /\ ~panicked
    /\ writerPc[c] = "running"
    /\ send[c] # <<>>
    /\ connOpen[c]
    /\ wire' = [wire EXCEPT ![c] = Head(send[c])]
    /\ send' = [send EXCEPT ![c] = Tail(@)]
    /\ UNCHANGED <<username, currentRoomID, connPc, readerPc, writerPc, connOpen, closed,
                   clients, rooms, routeMessage, evict, hubPending, panicked,
                   globalUsers, roomUsers, roomMessages, roomCount, inputs>>
    /\ UNCHANGED idVars

\* Client.WritePump: an envelope is received but SetWriteDeadline or WriteJSON
\* fails (a peer event: it stopped taking bytes; or the transport was closed on
\* this side); the writer returns and its deferred function closes the transport
WriterWriteError(c) ==
    /\ ~panicked
    /\ writerPc[c] = "running"
    /\ send[c] # <<>>
    /\ ~connOpen[c] \/ inputs > 0
    /\ inputs' = IF connOpen[c] THEN inputs - 1 ELSE inputs
    /\ send' = [send EXCEPT ![c] = Tail(@)]
    /\ writerPc' = [writerPc EXCEPT ![c] = "done"]
    /\ connOpen' = [connOpen EXCEPT ![c] = FALSE]
    /\ UNCHANGED <<username, currentRoomID, connPc, readerPc, closed, wire,
                   clients, rooms, routeMessage, evict, hubPending, panicked,
                   globalUsers, roomUsers, roomMessages, roomCount>>
    /\ UNCHANGED idVars

\* Client.WritePump: the receive reports the closed, drained queue; a close frame
\* is written (when the transport still takes it) and the writer returns
WriterClose(c) ==
    /\ ~panicked
    /\ writerPc[c] = "running"
    /\ send[c] = <<>>
    /\ closed[c]
    /\ wire' = [wire EXCEPT ![c] = IF connOpen[c] THEN CloseFrame ELSE @]
    /\ writerPc' = [writerPc EXCEPT ![c] = "done"]
    /\ connOpen' = [connOpen EXCEPT ![c] = FALSE]
    /\ UNCHANGED <<username, currentRoomID, connPc, readerPc, send, closed,
                   clients, rooms, routeMessage, evict, hubPending, panicked,
                   globalUsers, roomUsers, roomMessages, roomCount, inputs>>
    /\ UNCHANGED idVars

\* Client.WritePump "case <-ticker.C": writing the ping fails, the writer returns
WriterPingError(c) ==
    /\ ~panicked
    /\ writerPc[c] = "running"
    /\ ~connOpen[c] \/ inputs > 0
    /\ inputs' = IF connOpen[c] THEN inputs - 1 ELSE inputs
    /\ writerPc' = [writerPc EXCEPT ![c] = "done"]
    /\ connOpen' = [connOpen EXCEPT ![c] = FALSE]
    /\ UNCHANGED <<username, currentRoomID, connPc, readerPc, send, closed, wire,
                   clients, rooms, routeMessage, evict, hubPending, panicked,
                   globalUsers, roomUsers, roomMessages, roomCount>>
    /\ UNCHANGED idVars

Next ==
    \/ \E c \in Conns : \E name \in NamesOf(c), room \in RoomsOf(c) :
          ServeWs(c, name, room)
    \/ \E c \in Conns : HubRegister(c)
    \/ \E c \in Conns : RegisterTimeout(c)
    \/ \E c \in Conns : HubUnregisterReader(c)
    \/ \E c \in Conns : HubUnregisterEvict(c)
    \/ HubMessage
    \/ HubResume
    \/ \E c \in Conns : \E frame \in ClientFrames(c) : ReaderRead(c, frame)
    \/ \E c \in Conns : ReaderSkipMalformed(c)
    \/ \E c \in Conns : ReaderError(c)
    \/ \E c \in Conns : WriterWrite(c)
    \/ \E c \in Conns : WriterWriteError(c)
    \/ \E c \in Conns : WriterClose(c)
    \/ \E c \in Conns : WriterPingError(c)

Spec == Init /\ [][Next]_vars

\* ------------------------------------------------------ fair behaviours
\* The behaviours checked for progress: two connections, alice and bob, in room
\* r1; the peers send stats requests, their transports fail.
FairFrames == {Envelope(RequestStatsType, "", "", NoRoom, "client", FALSE, NoData)}

FairInit == Start(FairInputs)

FairNext ==
    \/ \E c \in Conns : ServeWs(c, IF c = 1 THEN "alice" ELSE "bob", "r1")
    \/ \E c \in Conns : HubRegister(c)
    \/ \E c \in Conns : HubUnregisterReader(c)
    \/ \E c \in Conns : HubUnregisterEvict(c)
    \/ HubMessage
    \/ HubResume
    \/ \E c \in Conns, frame \in FairFrames : ReaderRead(c, frame)
    \/ \E c \in Conns : ReaderError(c)
    \/ \E c \in Conns : WriterWrite(c)
    \/ \E c \in Conns : WriterWriteError(c)
    \/ \E c \in Conns : WriterClose(c)
    \/ \E c \in Conns : WriterPingError(c)

\* The steps of the hub, each by its guard and by a variable only it changes that
\* way: HubMessage, HubResume, HubRegister(c), HubUnregisterReader(c) and
\* HubUnregisterEvict(c) are the only actions that take these steps, and each is
\* enabled exactly when its step is.
HubTakesMessage ==
    /\ HubAtSelect
    /\ routeMessage # <<>>
    /\ routeMessage' = Tail(routeMessage)

HubGoesOn ==
    /\ ~panicked
    /\ hubPending # <<>>
    /\ Len(send[Head(hubPending).to]) < SendCap \/ closed[Head(hubPending).to]
    /\ \E k \in 1..Len(hubPending) :
          hubPending' = SubSeq(hubPending, k + 1, Len(hubPending))

HubTakesRegister(c) ==
    /\ HubAtSelect
    /\ connPc[c] = "registering"
    /\ clients' = clients \cup {c}

HubTakesUnregister(c) ==
    /\ HubAtSelect
    /\ readerPc[c] = "unregistering"
    /\ readerPc' = [readerPc EXCEPT ![c] = "done"]

HubTakesEviction(c) ==
    /\ HubAtSelect
    /\ evict[c] > 0
    /\ \E e \in [Conns -> 0..MaxEvict] : evict' = e /\ e[c] = evict[c] - 1

\* Fair scheduling of the goroutines. The hub's select takes every case that stays
\* ready, and a handler waiting in a send goes on once the queue has room. A writer
\* with an envelope to write and a healthy transport writes it; a writer or reader
\* whose transport was closed on this side fails; a writer on a closed, drained
\* queue returns. What the peers do (frames, failures of a healthy transport) is
\* not forced.
Fairness ==
    /\ WF_routeMessage(HubTakesMessage)
    /\ WF_hubPending(HubGoesOn)
    /\ \A c \in Conns :
          /\ WF_clients(HubTakesRegister(c))
          /\ WF_readerPc(HubTakesUnregister(c))
          /\ WF_evict(HubTakesEviction(c))
          /\ WF_vars(WriterWrite(c))
          /\ WF_vars(WriterClose(c))
          /\ WF_vars(~connOpen[c] /\ WriterWriteError(c))
          /\ WF_vars(~connOpen[c] /\ ReaderError(c))

FairSpec == FairInit /\ [][FairNext]_vars /\ Fairness

\* ------------------------------------------- behaviours with a history
\* The k-th text_message of room r1 as the hub stored it
HistText(k) ==
    Envelope(TextMessageType, IF k % 2 = 0 THEN "hi" ELSE "yo", "alice", "r1",
             "hub", FALSE, NoData)

\* room:r1:messages after k text messages, the newest at the head
History(k) == [i \in 1..k |-> MarshalMessage(HistText(k + 1 - i))]

\* The lengths of the list the behaviours start from: around the number of
\* entries sent on a join and around the number of entries kept
HistLengths ==
    {0, maxRecentMessagesToSend, maxRecentMessagesToSend + 1,
     maxRecentMessagesToStore - 1, maxRecentMessagesToStore}

\* The store was filled by earlier text messages of room r1 (it outlives the
\* server process); alice and bob connect to r1 and send text messages. The
\* connections stay: no transport fails and no slow-consumer task is scheduled.
HistInit ==
    \E k \in HistLengths :
        StartWith(HistInputs,
                  [r \in Rooms |-> IF r = "r1" THEN History(k) ELSE <<>>],
                  [r \in Rooms |-> IF r = "r1" THEN k ELSE 0])

HistFrames ==
    {Envelope(TextMessageType, content, "", NoRoom, "client", FALSE, NoData) :
        content \in {"hi", "yo"}}

HistNext ==
    \/ \E c \in Conns : ServeWs(c, IF c = 1 THEN "alice" ELSE "bob", "r1")
    \/ \E c \in Conns : HubRegister(c)
    \/ HubMessage
    \/ HubMessageAddError
    \/ \E c \in Conns : \E frame \in HistFrames : ReaderRead(c, frame)
    \/ \E c \in Conns : WriterWrite(c)

HistSpec == HistInit /\ [][HistNext]_vars

\* ------------------------------------- behaviours of a roomless client
\* The frames of a peer that leaves its room and goes on sending: none names a room
RoomlessFrames ==
    {Envelope(LeaveRoomMessageType, "", "", NoRoom, "client", FALSE, NoData),
     Envelope(TextMessageType, "hi", "", NoRoom, "client", FALSE, NoData),
     Envelope(UserTypingMessageType, "start", "", NoRoom, "client", FALSE, NoData),
     Envelope(RequestStatsType, "", "", NoRoom, "client", FALSE, NoData),
     Envelope(JoinRoomMessageType, JoinContent(NoRoom), "", NoRoom, "client", FALSE,
              NoData)}

RoomlessInit == Start(RoomlessInputs)

\* alice and bob connect to r1 and send such frames; the connections stay: no
\* transport fails and no slow-consumer task is scheduled.
RoomlessNext ==
    \/ \E c \in Conns : ServeWs(c, IF c = 1 THEN "alice" ELSE "bob", "r1")
    \/ \E c \in Conns : HubRegister(c)
    \/ HubMessage
    \/ HubResume
    \/ \E c \in Conns : \E frame \in RoomlessFrames : ReaderRead(c, frame)
    \/ \E c \in Conns : WriterWrite(c)

RoomlessSpec == RoomlessInit /\ [][RoomlessNext]_vars

\* --------------------------------------- behaviours with failing calls
\* The frames of RoomlessFrames, a frame of unknown type and a join_room whose
\* content is not JSON
FaultFrames ==
    RoomlessFrames
    \cup {Envelope(UnknownType, "", "", NoRoom, "client", FALSE, NoData),
          Envelope(JoinRoomMessageType, "{bad", "", NoRoom, "client", FALSE, NoData)}

FaultInit == Start(FaultInputs)

\* alice and bob connect to r1; the peers send such frames and frames that are not
\* JSON; calls of the store may fail. The connections stay: no transport fails
\* and no slow-consumer task is scheduled.
FaultNext ==
    \/ \E c \in Conns : ServeWs(c, IF c = 1 THEN "alice" ELSE "bob", "r1")
    \/ \E c \in Conns : HubRegister(c)
    \/ \E c \in Conns : HubRegisterGetError(c)
    \/ HubMessage
    \/ HubMessageAddError
    \/ HubMessageIncrError
    \/ HubMessageStatsError
    \/ HubResume
    \/ \E c \in Conns : \E frame \in FaultFrames : ReaderRead(c, frame)
    \/ \E c \in Conns : ReaderSkipMalformed(c)
    \/ \E c \in Conns : WriterWrite(c)

FaultSpec == FaultInit /\ [][FaultNext]_vars

\* ------------------------------------ behaviours with a panicking handler
\* Hub.Run calls the three handlers from its select with no deferred recover, and
\* no goroutine of the program recovers: a run-time panic raised while a handler
\* runs ends the process. The handler had taken its event from the channel.
HubHandlerPanics ==
    /\ HubAtSelect
    /\ \/ /\ routeMessage # <<>>
          /\ routeMessage' = Tail(routeMessage)
          /\ UNCHANGED connPc
       \/ /\ \E c \in Conns :
                /\ connPc[c] = "registering"
                /\ connPc' = [connPc EXCEPT ![c] = "started"]
          /\ UNCHANGED routeMessage
    /\ panicked' = TRUE
    /\ UNCHANGED <<username, readerPc, writerPc, connOpen, wire, inputs, currentRoomID,
                   send, closed, clients, rooms, evict, hubPending, globalUsers,
                   roomUsers, roomMessages, roomCount>>
    /\ UNCHANGED idVars

PanicInit == Start(PanicInputs)

\* alice and bob connect to r1 and send frames; the connections stay
PanicNext ==
    \/ \E c \in Conns : ServeWs(c, IF c = 1 THEN "alice" ELSE "bob", "r1")
    \/ \E c \in Conns : HubRegister(c)
    \/ HubMessage
    \/ HubResume
    \/ HubHandlerPanics
    \/ \E c \in Conns : \E frame \in RoomlessFrames : ReaderRead(c, frame)
    \/ \E c \in Conns : WriterWrite(c)

\* The hub's select takes every case that stays ready, a handler waiting in a send
\* goes on once the queue has room, a writer writes what its queue holds.
PanicFairness ==
    /\ WF_routeMessage(HubTakesMessage)
    /\ WF_hubPending(HubGoesOn)
    /\ \A c \in Conns :
          /\ WF_clients(HubTakesRegister(c))
          /\ WF_vars(WriterWrite(c))

PanicSpec == PanicInit /\ [][PanicNext]_vars /\ PanicFairness

\* ------------------------------- behaviours with two frames in flight
\* alice and bob connect to r1; a peer asks to join r2 and sends a text_message
\* without roomId.
RaceFrames ==
    {Envelope(JoinRoomMessageType, JoinContent("r2"), "", NoRoom, "client", FALSE, NoData),
     Envelope(TextMessageType, "hi", "", NoRoom, "client", FALSE, NoData)}

RaceInit == Start(RaceInputs)

RaceNext ==
    \/ \E c \in Conns : ServeWs(c, IF c = 1 THEN "alice" ELSE "bob", "r1")
    \/ \E c \in Conns : HubRegister(c)
    \/ HubMessage
    \/ \E c \in Conns : \E frame \in RaceFrames : ReaderForward(c, frame, RaceCap)
    \/ \E c \in Conns : WriterWrite(c)

RaceSpec == RaceInit /\ [][RaceNext]_vars

\* ------------------------------------------------------------ properties
\* the envelopes a step appended to the queue of c
Appended(c) == SubSeq(send'[c], Len(send[c]) + 1, Len(send'[c]))

IsPrefix(s, t) == Len(s) <= Len(t) /\ SubSeq(t, 1, Len(s)) = s

\* e is the envelope m as the sender's reader handed it to the hub
IsCopyOf(e, m) ==
    /\ e.type = m.type
    /\ e.content = m.content
    /\ e.username = m.username
    /\ e.roomId = m.roomId
    /\ e.data = m.data

\* how many copies of m the step appended to the queue of c
Copies(c, m) ==
    Cardinality({i \in 1..Len(Appended(c)) : IsCopyOf(Appended(c)[i], m)})

MembersOf(r) == IF r \in DOMAIN rooms THEN rooms[r] ELSE {}

HasRoom(c) == Len(send[c]) < SendCap

\* C1: when the hub handles a text_message of a registered sender with a non-empty
\* roomId r, the step appends exactly one copy of it to the queue of every member
\* of hub.rooms[r] whose queue has room (the sender included), appends none to a
\* member whose queue is full (a slow-consumer task is started for it), and none
\* to a connection outside the room.
C1_Step ==
    (HubTakesMessage
       /\ Head(routeMessage).msg.type = TextMessageType
       /\ Head(routeMessage).msg.roomId # NoRoom
       /\ Head(routeMessage).from \in clients)
    => LET m == Head(routeMessage).msg
       IN \A c \in Conns :
             /\ (c \in MembersOf(m.roomId) /\ HasRoom(c)) => Copies(c, m) = 1
             /\ (c \in MembersOf(m.roomId) /\ ~HasRoom(c))
                   => (Copies(c, m) = 0 /\ evict'[c] > 0)
             /\ c \notin MembersOf(m.roomId) => Copies(c, m) = 0

C1_TextFanOut == [][C1_Step]_vars

\* a text message sits in the queues of its sender and of another member
C1_Witness ==
    \E c \in Conns, d \in Conns :
       /\ c # d
       /\ \E i \in 1..Len(send[c]), j \in 1..Len(send[d]) :
             /\ send[c][i].type = TextMessageType
             /\ send[c][i].username = username[c]
             /\ send[d][j] = send[c][i]

\* C2 (as stated): a user_typing envelope is appended to the queue of every other
\* member of its room and never to the queue of the connection that sent it.
C2_OtherMembersStep ==
    (HubTakesMessage
       /\ Head(routeMessage).msg.type = UserTypingMessageType
       /\ Head(routeMessage).msg.roomId # NoRoom
       /\ Head(routeMessage).from \in clients)
    => LET m == Head(routeMessage).msg
           from == Head(routeMessage).from
       IN /\ Copies(from, m) = 0
          /\ \A c \in MembersOf(m.roomId) \ {from} : HasRoom(c) => Copies(c, m) = 1

C2_TypingToOtherMembers == [][C2_OtherMembersStep]_vars

\* C2 (amended): a user_typing envelope is appended exactly once to the queue of each
\* member of its room whose username differs from the sender's (and whose queue has
\* room); it is appended to no connection that carries the sender's username, the
\* sending connection included, and to no connection outside the room.
C2_Step ==
    (HubTakesMessage
       /\ Head(routeMessage).msg.type = UserTypingMessageType
       /\ Head(routeMessage).msg.roomId # NoRoom
       /\ Head(routeMessage).from \in clients)
    => LET m == Head(routeMessage).msg
           from == Head(routeMessage).from
       IN \A c \in Conns :
             Copies(c, m) = IF /\ c \in MembersOf(m.roomId)
                               /\ username[c] # username[from]
                               /\ HasRoom(c)
                            THEN 1 ELSE 0

C2_TypingByUsername == [][C2_Step]_vars

\* a typing indicator of another user sits in a member's queue
C2_Witness ==
    \E c \in Conns : \E i \in 1..Len(send[c]) :
       /\ send[c][i].type = UserTypingMessageType
       /\ send[c][i].username # username[c]
       /\ send[c][i].username # ""

\* C3: every envelope a reader hands to the hub carries the username the connection
\* authenticated with and a timestamp set by the reader, whatever the peer wrote
\* into the frame; the text and typing envelopes the hub fans out name that
\* username and carry a server timestamp; and a connection's username, once set at
\* construction, never changes.
C3_Forwarded ==
    \A i \in 1..Len(routeMessage) :
       /\ routeMessage[i].msg.username = username[routeMessage[i].from]
       /\ routeMessage[i].msg.ts = "reader"

C3_Step ==
    /\ \A c \in Conns : username[c] # "" => username'[c] = username[c]
    /\ HubTakesMessage =>
          \A c \in Conns : \A i \in 1..Len(Appended(c)) :
             Appended(c)[i].type \in {TextMessageType, UserTypingMessageType}
             => /\ Appended(c)[i].username = username[Head(routeMessage).from]
                /\ Appended(c)[i].ts = "hub"

C3_AuthenticatedIdentity == []C3_Forwarded /\ [][C3_Step]_vars

\* alice's frame claiming to come from bob is waiting for the hub
C3_Witness ==
    \E i \in 1..Len(routeMessage) :
       /\ routeMessage[i].claimed = "bob"
       /\ username[routeMessage[i].from] = "alice"
       /\ routeMessage[i].msg.type \in {TextMessageType, UserTypingMessageType}

\* the envelopes of a room that the hub broadcasts
IsRoomBroadcast(e) ==
    /\ e.roomId # NoRoom
    /\ e.type \in {TextMessageType, UserTypingMessageType, UserJoinedMessageType,
                   UserLeftMessageType, UserListUpdateType, RoomStatsUpdateType}

\* C4: the queues are FIFO channels the hub only appends to, and within one hub step
\* any two room envelopes that are appended to two connections' queues are appended
\* to both in the same order; so the envelopes of a room that reach two members
\* reach their queues in the same relative order.
C4_Step ==
    /\ \A c \in Conns :
          \/ IsPrefix(send[c], send'[c])
          \/ (send[c] # <<>> /\ send'[c] = Tail(send[c]))
    /\ \A c \in Conns, d \in Conns :
          (IsPrefix(send[c], send'[c]) /\ IsPrefix(send[d], send'[d])) =>
             \A i \in 1..Len(Appended(c)), j \in 1..Len(Appended(c)) :
                \A k \in 1..Len(Appended(d)), l \in 1..Len(Appended(d)) :
                   (/\ i < j
                    /\ IsRoomBroadcast(Appended(c)[i])
                    /\ IsRoomBroadcast(Appended(c)[j])
                    /\ Appended(c)[i].roomId = Appended(c)[j].roomId
                    /\ Appended(d)[k] = Appended(c)[i]
                    /\ Appended(d)[l] = Appended(c)[j]) => k < l

C4_SameRelativeOrder == [][C4_Step]_vars

\* two members hold the same two envelopes of their room, in the same order
C4_Witness ==
    \E c \in Conns, d \in Conns :
       /\ c # d
       /\ \E i \in 1..Len(send[c]), j \in 1..Len(send[c]) :
          \E k \in 1..Len(send[d]), l \in 1..Len(send[d]) :
             /\ i < j /\ k < l
             /\ IsRoomBroadcast(send[c][i])
             /\ IsRoomBroadcast(send[c][j])
             /\ send[c][i].roomId = send[c][j].roomId
             /\ send[c][i] # send[c][j]
             /\ send[d][k] = send[c][i]
             /\ send[d][l] = send[c][j]

\* C5: a step that takes an envelope out of a connection's queue takes the oldest
\* one, and while the transport is healthy that envelope is the one written; a data
\* frame appears on the transport only as the oldest queued envelope, which leaves
\* the queue in the same step. So the writer writes in enqueue order, writing each
\* envelope once and skipping none.
C5_Step ==
    \A c \in Conns :
       /\ ~IsPrefix(send[c], send'[c]) =>
             /\ send[c] # <<>>
             /\ send'[c] = Tail(send[c])
             /\ connOpen'[c] => wire'[c] = Head(send[c])
       /\ (wire'[c] # wire[c] /\ wire'[c] # CloseFrame) =>
             /\ send[c] # <<>>
             /\ wire'[c] = Head(send[c])
             /\ send'[c] = Tail(send[c])

C5_WriterInOrder == [][C5_Step]_vars

\* the writer has written the first envelope of a registration and the next ones
\* are still queued behind it
C5_Witness ==
    \E c \in Conns :
       /\ connOpen[c]
       /\ wire[c].type = GlobalUserCountUpdateType
       /\ Len(send[c]) >= 2
       /\ send[c][1].type = UserJoinedMessageType
       /\ send[c][2].type = UserListUpdateType

\* C6: the hub never waits in a send: whenever it enqueues an envelope (a room
\* fan-out, the global count, or a targeted error_message, recent_messages or
\* room_stats_update) and the queue is full, it goes on without waiting.
C6_HubNeverWaits == hubPending = <<>>

\* C7: a member whose queue was full during a fan-out gets its unregister request
\* posted by a separate task, and under fair scheduling the hub eventually
\* processes that request.
C7_EvictionProcessed ==
    \A c \in Conns : (evict[c] > 0) ~> (evict[c] = 0)

\* C8: when a connection's reader has hit a read error, under fair scheduling the hub
\* eventually unregisters the connection: it is in neither hub.clients nor a room,
\* and its queue is closed.
C8_ReaderErrorUnregisters ==
    \A c \in Conns :
       (readerPc[c] = "unregistering")
          ~> (/\ readerPc[c] = "done"
              /\ c \notin clients
              /\ \A r \in DOMAIN rooms : c \notin rooms[r]
              /\ closed[c])

\* the types of the envelopes of seq, in order
TypesOf(seq) == [i \in 1..Len(seq) |-> seq[i].type]

\* the first n entries of seq (all of it when it is shorter)
Take(seq, n) == SubSeq(seq, 1, IF n < Len(seq) THEN n ELSE Len(seq))

\* what a remaining member of the room is sent when a member is unregistered
LeaveSequence ==
    <<UserLeftMessageType, UserListUpdateType, RoomStatsUpdateType,
      GlobalUserCountUpdateType>>

\* C9: in the step that unregisters a registered connection c of room r, c leaves
\* hub.clients and hub.rooms[r] and its queue is closed; every remaining member of
\* r is sent user_left (naming c's username), user_list_update, room_stats_update
\* and then global_user_count_update, in that order and nothing else, as far as its
\* queue has room; every other registered connection is sent only
\* global_user_count_update; and nothing is appended to the queue of c.
C9_Step ==
    \A c \in Conns :
       (c \in clients /\ c \notin clients') =>
          /\ \A q \in DOMAIN rooms' : c \notin rooms'[q]
          /\ closed'[c]
          /\ send'[c] = send[c]
          /\ \A m \in clients' :
                /\ TypesOf(Appended(m)) =
                      Take(IF m \in MembersOf(currentRoomID[c])
                           THEN LeaveSequence
                           ELSE <<GlobalUserCountUpdateType>>,
                           SendCap - Len(send[m]))
                /\ \A i \in 1..Len(Appended(m)) :
                      Appended(m)[i].type = UserLeftMessageType
                      => /\ Appended(m)[i].username = username[c]
                         /\ Appended(m)[i].roomId = currentRoomID[c]

C10_GlobalUsersMatchClients ==
    HubAtSelect => globalUsers = {username[c] : c \in clients}

\* C11: between hub events, every registered connection c whose currentRoomId is a
\* non-empty room r is a member of hub.rooms[r] and its username is in the store
\* set room:r:users, also when connections share a username.
C11_CurrentRoomMembership ==
    HubAtSelect =>
        \A c \in clients :
            currentRoomID[c] # NoRoom =>
                /\ c \in MembersOf(currentRoomID[c])
                /\ username[c] \in roomUsers[currentRoomID[c]]

\* the connections registered with the hub whose currentRoomId is r
InRoom(r) == {c \in clients : currentRoomID[c] = r}

\* C12: between hub events, for every room r the size of hub.rooms[r] (0 when the
\* room has no entry) is the number of registered connections whose currentRoomId
\* is r.
C12_RoomSizeMatches ==
    HubAtSelect =>
        \A r \in Rooms : Cardinality(MembersOf(r)) = Cardinality(InRoom(r))

\* a registered connection has left its room while another one is in a room
C12_Witness ==
    /\ HubAtSelect
    /\ \E c \in clients, d \in clients :
          currentRoomID[c] = NoRoom /\ d \in MembersOf(currentRoomID[d])

\* the hub takes the envelope at the head of routeMessage, of type t
HubHandles(t) ==
    /\ HubAtSelect
    /\ routeMessage # <<>>
    /\ routeMessage' = Tail(routeMessage)
    /\ Head(routeMessage).msg.type = t

\* the hub handles a leave_room read on connection c
LeaveFrom(c) ==
    /\ HubHandles(LeaveRoomMessageType)
    /\ Head(routeMessage).from = c
    /\ c \in clients

\* the hub handles a well-formed join_room for room r read on connection c
JoinFrom(c, r) ==
    /\ HubHandles(JoinRoomMessageType)
    /\ Head(routeMessage).from = c
    /\ c \in clients
    /\ UnmarshalJoinRoomData(Head(routeMessage).msg.content) = [ok |-> TRUE, roomId |-> r]

\* the step is one after which c should have left room r
LeavesRoom(c, r) ==
    \/ c \in clients /\ c \notin clients'
    \/ LeaveFrom(c)
    \/ \E r2 \in Rooms \ {r} : JoinFrom(c, r2)

C13_Step ==
    \A c \in Conns, r \in Rooms :
        (c \in MembersOf(r) /\ LeavesRoom(c, r)) =>
            /\ r \in DOMAIN rooms' => c \notin rooms'[r]
            /\ username[c] \notin roomUsers'[r]

\* C13: after the hub has handled a leave_room from c, a switch of c away from
\* room r, or the unregistration of c, where c was a member of r, c is not in
\* hub.rooms[r] and the username of c is not in room:r:users.
C13_LeftRoom == [][C13_Step]_vars

SoleName(c) == \A d \in clients \ {c} : username[d] # username[c]

C13_StepSole ==
    \A c \in Conns, r \in Rooms :
        (c \in MembersOf(r) /\ LeavesRoom(c, r) /\ SoleName(c)) =>
            /\ r \in DOMAIN rooms' => c \notin rooms'[r]
            /\ username[c] \notin roomUsers'[r]


\* C13 for connections whose username no other registered connection has
C13_LeftRoomSoleName == [][C13_StepSole]_vars

\* the envelopes of type t the step appended to the queue of c
AppendedOfType(c, t) ==
    SelectSeq(Appended(c), LAMBDA e : e.type = t)

\* the text_message at the head of routeMessage as the hub serialises it
StoredText ==
    MarshalMessage([Head(routeMessage).msg EXCEPT !.ts = "hub", !.system = FALSE])

\* the hub handles a text_message for room r of a registered sender
TextFor(r) ==
    /\ HubHandles(TextMessageType)
    /\ Head(routeMessage).msg.roomId = r
    /\ Head(routeMessage).msg.username # ""
    /\ findClientByUsername(Head(routeMessage).msg.username) # {NoClient}

\* ... and the store took the message (a failed call changes nothing)
TextStored(r) == TextFor(r) /\ roomMessages'[r] # roomMessages[r]

C14_Step ==
    \A r \in Rooms :
        TextStored(r) =>
            /\ roomCount'[r] = roomCount[r] + 1
            /\ Head(roomMessages'[r]) = StoredText
            /\ \A c \in Conns :
                  LET stats == AppendedOfType(c, RoomStatsUpdateType)
                  IN /\ \A i \in 1..Len(stats) :
                           /\ stats[i].roomId = r
                           /\ stats[i].data.count = roomCount[r] + 1
                     /\ (c \in MembersOf(r) /\ Len(send[c]) + 2 <= SendCap)
                           => Len(stats) = 1

\* C14: when the hub handles a text_message for room r and the store succeeds,
\* room:r:message_count grows by exactly one, the serialised envelope is the head
\* of room:r:messages, and the room_stats_update broadcast in the same step
\* carries the new count.
C14_TextStoredAndCounted == [][C14_Step]_vars

\* a text was stored on top of a full list and its stats envelope is queued
C14_Witness ==
    /\ roomCount["r1"] = maxRecentMessagesToStore + 1
    /\ roomMessages["r1"] # History(maxRecentMessagesToStore)
    /\ \E c \in Conns : \E i \in 1..Len(send[c]) :
          /\ send[c][i].type = RoomStatsUpdateType
          /\ send[c][i].data.count = maxRecentMessagesToStore + 1

C15_Bounded ==
    \A r \in Rooms : Len(roomMessages[r]) <= maxRecentMessagesToStore

C15_Step ==
    \A r \in Rooms :
        /\ roomMessages'[r] # roomMessages[r] =>
              /\ TextFor(r)
              /\ roomMessages'[r] =
                    Take(<<StoredText>> \o roomMessages[r], maxRecentMessagesToStore)
        /\ TextFor(r) => Len(roomMessages'[r]) \in {Len(roomMessages[r]),
                                                   Len(roomMessages[r]) + 1}

JoinStep(c) ==
    \/ c \notin clients /\ c \in clients'
    \/ HubHandles(JoinRoomMessageType) /\ c \in clients /\ c \in clients'

C16_Step ==
    \A c \in Conns :
        LET recent == AppendedOfType(c, RecentMessagesType)
        IN /\ Len(recent) <= 1
           /\ Len(recent) = 1 =>
                 /\ JoinStep(c)
                 /\ currentRoomID'[c] = recent[1].roomId
                 /\ recent[1].roomId \in Rooms
                 /\ roomMessages[recent[1].roomId] # <<>>
                 /\ recent[1].data.messages =
                       Take(roomMessages[recent[1].roomId], maxRecentMessagesToSend)
                 /\ Len(recent[1].data.messages) <= maxRecentMessagesToSend
                 /\ \A d \in Conns \ {c} : AppendedOfType(d, RecentMessagesType) = <<>>
           /\ (c \notin clients /\ c \in clients'
                 /\ roomMessages[currentRoomID[c]] = <<>>) => Len(recent) = 0

\* C16: the recent_messages envelope of a join carries at most
\* maxRecentMessagesToSend entries, the newest of the room's history, newest
\* first; it is enqueued only to the joining connection, at most once per join,
\* and only when the history is not empty.
C16_RecentOnJoin == [][C16_Step]_vars

\* a connection joined a room with more history than is sent
C16_Witness ==
    \E c \in Conns : \E i \in 1..Len(send[c]) :
        /\ send[c][i].type = RecentMessagesType
        /\ Len(send[c][i].data.messages) = maxRecentMessagesToSend
        /\ Len(roomMessages[send[c][i].roomId]) > maxRecentMessagesToSend

\* what a connection registering into room r is sent, by type
RegistrationSequence(r) ==
    <<GlobalUserCountUpdateType>>
    \o (IF roomMessages[r] # <<>> THEN <<RecentMessagesType>> ELSE <<>>)
    \o <<UserJoinedMessageType, UserListUpdateType, RoomStatsUpdateType>>

C17_Step ==
    \A c \in Conns :
        (c \notin clients /\ c \in clients' /\ currentRoomID[c] # NoRoom) =>
            /\ send[c] = <<>>
            /\ TypesOf(send'[c]) = RegistrationSequence(currentRoomID[c])
            /\ \A i \in 1..Len(send'[c]) :
                  /\ send'[c][i].type = UserJoinedMessageType
                        => send'[c][i].username = username[c]
                  /\ send'[c][i].type # GlobalUserCountUpdateType
                        => send'[c][i].roomId = currentRoomID[c]

\* C17: when the hub registers a connection c whose initial room r is not empty,
\* the queue of c receives, in this order: global_user_count_update,
\* recent_messages (only when the history of r is not empty), user_joined for c,
\* user_list_update, room_stats_update.
C17_RegistrationOrder == [][C17_Step]_vars

\* a connection registered into a room with history holds all five envelopes
C17_Witness ==
    \E c \in clients :
        TypesOf(send[c]) = <<GlobalUserCountUpdateType, RecentMessagesType,
                             UserJoinedMessageType, UserListUpdateType,
                             RoomStatsUpdateType>>

\* what a remaining member of the room is sent when a member leaves it
RoomLeaveSequence == <<UserLeftMessageType, UserListUpdateType, RoomStatsUpdateType>>

\* the step handles join_room(r2) read on c, a member of r1, r1 # r2
SwitchFrom(c, r1, r2) ==
    /\ r1 # r2
    /\ currentRoomID[c] = r1
    /\ c \in MembersOf(r1)
    /\ JoinFrom(c, r2)

\* the outcome of a switch of c from r1 to r2
Switched(c, r1, r2) ==
    /\ currentRoomID'[c] = r2
    /\ r2 \in DOMAIN rooms' /\ c \in rooms'[r2]
    /\ r1 \in DOMAIN rooms' => c \notin rooms'[r1]
    /\ \A d \in MembersOf(r1) \ {c} :
          LET got == SelectSeq(Appended(d), LAMBDA e : e.roomId = r1)
          IN /\ d \in rooms'[r1]
             /\ IsPrefix(TypesOf(got), RoomLeaveSequence)
             /\ Len(send[d]) + Len(RoomLeaveSequence) <= SendCap
                   => TypesOf(got) = RoomLeaveSequence
             /\ \A i \in 1..Len(got) :
                   /\ got[i].type = UserLeftMessageType => got[i].username = username[c]
                   /\ got[i].type = UserListUpdateType
                         => got[i].data.users = roomUsers'[r1]
    /\ \A i \in 1..Len(Appended(c)) : Appended(c)[i].roomId # r1
    /\ hubPending' = <<>> \/ \A i \in 1..Len(hubPending') : hubPending'[i].env.roomId # r1

C18_Step ==
    \A c \in Conns, r1 \in Rooms, r2 \in Rooms :
        SwitchFrom(c, r1, r2) => Switched(c, r1, r2)

\* C18: when the hub handles join_room(r2) from a connection c whose currentRoomId
\* is r1, r1 not empty and not r2, c is removed from hub.rooms[r1] (the remaining
\* members of r1 get user_left, user_list_update, room_stats_update) and added to
\* hub.rooms[r2]; afterwards currentRoomId is r2, c is in hub.rooms[r2] and not in
\* hub.rooms[r1], and c was sent none of the leave notifications of r1.
C18_RoomSwitch == [][C18_Step]_vars

C18_StepSole ==
    \A c \in Conns, r1 \in Rooms, r2 \in Rooms :
        (SwitchFrom(c, r1, r2) /\ SoleName(c)) => Switched(c, r1, r2)

\* C18 for connections whose username no other registered connection has
C18_RoomSwitchSoleName == [][C18_StepSole]_vars

\* hub.rooms and room:r:users after Join(c, r) followed by Leave(c, r)
JoinThenLeave(c, r) ==
    handleClientLeaveRoom(handleClientJoinRoom(HubState, c, r), c, r, FALSE)

\* C19: for every reachable state between hub events and every registered
\* connection c that is not in room r, Join(c, r) followed by Leave(c, r) leaves
\* hub.rooms (also whether r has an entry) and room:r:users as they were.
C19_JoinLeaveRoundTrip ==
    HubAtSelect =>
        \A c \in clients, r \in Rooms :
            c \notin MembersOf(r) =>
                /\ JoinThenLeave(c, r).rooms = rooms
                /\ JoinThenLeave(c, r).roomUsers[r] = roomUsers[r]

\* C19 when no member of r has the username of c
C19_RoundTripSoleName ==
    HubAtSelect =>
        \A c \in clients, r \in Rooms :
            (c \notin MembersOf(r)
             /\ \A d \in MembersOf(r) : username[d] # username[c]) =>
                /\ JoinThenLeave(c, r).rooms = rooms
                /\ JoinThenLeave(c, r).roomUsers[r] = roomUsers[r]

\* the hub handles an envelope of type t read on the registered connection c whose
\* effective room id is empty
EmptyRoomFrom(c, t) ==
    /\ HubHandles(t)
    /\ Head(routeMessage).from = c
    /\ c \in clients
    /\ \/ t \in {TextMessageType, UserTypingMessageType}
          /\ Head(routeMessage).msg.roomId = NoRoom
       \/ t = RequestStatsType
          /\ Head(routeMessage).msg.roomId = NoRoom
          /\ currentRoomID[c] = NoRoom
       \/ t = JoinRoomMessageType
          /\ UnmarshalJoinRoomData(Head(routeMessage).msg.content)
                = [ok |-> TRUE, roomId |-> NoRoom]

\* the step sends one error_message to c (the send may still wait for room in the
\* queue) and nothing to anyone else
ErrorSentTo(c) ==
    /\ \A d \in Conns \ {c} : send'[d] = send[d]
    /\ \/ /\ TypesOf(Appended(c)) = <<ErrorMessageType>>
          /\ hubPending' = <<>>
       \/ /\ send'[c] = send[c]
          /\ Len(hubPending') = 1
          /\ hubPending'[1].to = c
          /\ hubPending'[1].env.type = ErrorMessageType

HubStoreUnchanged ==
    UNCHANGED <<clients, rooms, currentRoomID, closed, globalUsers, roomUsers,
                roomMessages, roomCount>>

EmptyRoomTypes ==
    {TextMessageType, UserTypingMessageType, RequestStatsType, JoinRoomMessageType}

C20_Step ==
    \A c \in Conns, t \in EmptyRoomTypes :
        EmptyRoomFrom(c, t) => (ErrorSentTo(c) /\ HubStoreUnchanged)

\* C20: a text_message, user_typing, request_room_stats or join_room whose
\* effective room id is empty makes the hub send an error_message to the sender
\* and changes nothing in hub.clients, hub.rooms, the connections' rooms or the
\* store.
C20_EmptyRoomError == [][C20_Step]_vars

C20_StepAsCoded ==
    \A c \in Conns, t \in EmptyRoomTypes :
        EmptyRoomFrom(c, t) =>
            /\ HubStoreUnchanged
            /\ IF t = UserTypingMessageType
               THEN send' = send /\ hubPending' = <<>>
               ELSE ErrorSentTo(c)

\* C20 as the code has it: a user_typing without a room is dropped without any
\* answer, the other three are answered with an error_message
C20_EmptyRoomAsCoded == [][C20_StepAsCoded]_vars

\* the members of room r after the step
MembersAfter(r) == IF r \in DOMAIN rooms' THEN rooms'[r] ELSE {}

\* the usernames of the members of room r after the step
NamesAfter(r) == {username[d] : d \in MembersAfter(r)}

C23_Step ==
    \A c \in Conns : \A i \in 1..Len(Appended(c)) :
        LET e == Appended(c)[i]
        IN /\ e.type = UserListUpdateType => e.data.users = NamesAfter(e.roomId)
           /\ e.type = RoomStatsUpdateType
                 => e.data.active = Cardinality(NamesAfter(e.roomId))

\* C23: every user_list_update for room r lists exactly the usernames of the
\* members of hub.rooms[r] at the time of the broadcast, and every
\* room_stats_update for r reports activeUsers equal to the number of those
\* usernames, also when connections share a username.
C23_ListMatchesMembers == [][C23_Step]_vars

\* no two connections were opened with the same username
NamesDistinct ==
    \A c \in Conns, d \in Conns : (c # d /\ username[c] # "") => username[c] # username[d]

\* C23 when no username is used by two connections
C23_ListMatchesDistinctNames == [][NamesDistinct => C23_Step]_vars

C24_Step ==
    \A r \in Rooms :
        \/ roomCount'[r] = roomCount[r]
        \/ roomCount'[r] = roomCount[r] + 1 /\ TextFor(r)

C25_AddUserIdempotent ==
    \A r \in Rooms, u \in Usernames :
        LET once == AddActiveUserToRoom(roomUsers[r], u)
            twice == AddActiveUserToRoom(once, u)
        IN /\ u \in twice
           /\ twice = once
           /\ Cardinality(twice) = Cardinality(roomUsers[r] \ {u}) + 1

\* two connections with one username joined the same room, one after the other
C25_Witness ==
    \E r \in DOMAIN rooms : \E c \in rooms[r], d \in rooms[r] :
        /\ c # d
        /\ username[c] = username[d]
        /\ roomUsers[r] = {username[c]}

\* C27: between hub events no key of hub.rooms maps to an empty set of members.
C27_NoEmptyRoom ==
    HubAtSelect => \A r \in DOMAIN rooms : rooms[r] # {}

\* the last member of the only room has left it, the entry is gone
C27_Witness ==
    /\ HubAtSelect
    /\ clients # {}
    /\ DOMAIN rooms = {}

\* the step is one of a reader, of a writer or of RegisterClient timing out
PumpStep ==
    \/ inputs' # inputs
    \/ wire' # wire
    \/ \E c \in Conns :
          \/ readerPc[c] = "reading" /\ readerPc'[c] = "unregistering"
          \/ writerPc[c] = "running" /\ writerPc'[c] = "done"

\* the step changes hub.clients, hub.rooms or the room of a constructed connection
HubMapsChange ==
    \/ clients' # clients
    \/ rooms' # rooms
    \/ \E c \in Conns : connPc[c] # "idle" /\ currentRoomID'[c] # currentRoomID[c]

C28_Step ==
    /\ PumpStep => UNCHANGED <<clients, rooms, currentRoomID>>
    /\ HubMapsChange => (HubAtSelect /\ ~PumpStep)

\* C28: only the hub's event loop changes hub.clients, hub.rooms and the
\* currentRoomId of a constructed connection: every step of a reader, of a writer
\* and of RegisterClient leaves them unchanged, and every step that changes one of
\* them is a hub event taken at the select.
C28_OnlyHubWrites == [][C28_Step]_vars

\* a reader has exited and a writer has written while connections are registered
C28_Witness ==
    \E c \in clients :
        /\ readerPc[c] = "unregistering"
        /\ wire[c] # NoFrame
        /\ rooms # <<>>

\* the hub takes an unregister event for c
UnregisterEvent(c) ==
    /\ HubAtSelect
    /\ \/ readerPc[c] = "unregistering" /\ readerPc'[c] = "done"
       \/ evict'[c] < evict[c]

C29_Step ==
    \A c \in Conns :
        (UnregisterEvent(c) /\ c \notin clients) =>
            /\ UNCHANGED <<clients, rooms, currentRoomID, globalUsers, roomUsers,
                           roomMessages, roomCount, send, closed, hubPending>>
            /\ ~panicked'

\* C29: an unregister event for a connection that is not in hub.clients changes
\* neither hub.clients, hub.rooms nor the store, sends nothing and closes no
\* queue; no queue is ever closed twice (closing a closed queue panics).
C29_UnregisterIgnored == []~panicked /\ [][C29_Step]_vars

\* a reader exited without any peer event, after its connection was evicted and
\* the queue closed, and the hub has taken its unregister event
C29_Witness ==
    /\ inputs = MaxInputs
    /\ \E c \in Conns : readerPc[c] = "done" /\ closed[c] /\ c \notin clients

\* the step hands an error_message to c: it is appended to the queue of c, or the
\* hub starts to wait for room in that queue
ErrorsTo(c) ==
    Len(AppendedOfType(c, ErrorMessageType))
    + (IF /\ hubPending = <<>>
          /\ hubPending' # <<>>
          /\ hubPending'[1].to = c
          /\ hubPending'[1].env.type = ErrorMessageType
       THEN 1 ELSE 0)

C21_Step ==
    \A c \in Conns :
        ErrorsTo(c) > 0 =>
            /\ ErrorsTo(c) = 1
            /\ \A d \in Conns \ {c} : ErrorsTo(d) = 0
            /\ c \in clients
            /\ UNCHANGED <<clients, rooms, globalUsers, roomUsers, roomMessages,
                           roomCount>>

\* C21: every error_message the hub emits goes to the queue of exactly one
\* connection and to no other, and the step that emits it changes neither
\* hub.clients, hub.rooms nor the store.
C21_ErrorTargeted == [][C21_Step]_vars

\* queues hold the error of a failed stats read and the error of an unknown type
C21_Witness ==
    /\ \E c \in Conns : \E i \in 1..Len(send[c]) :
          send[c][i].type = ErrorMessageType /\ send[c][i].roomId # NoRoom
    /\ \E c \in Conns : \E i \in 1..Len(send[c]) :
          /\ send[c][i].type = ErrorMessageType
          /\ send[c][i].content = "Unknown message type received"

\* the reader of c has a frame to read
FrameReady(c) ==
    /\ ~panicked
    /\ readerPc[c] = "reading"
    /\ connOpen[c]
    /\ inputs > 0

\* a reader with a frame to read can take its step, whatever the hub's queue holds
C22_NeverBlocks ==
    \A c \in Conns :
        FrameReady(c) => ENABLED (\E frame \in FaultFrames : ReaderRead(c, frame))

\* the step reads one frame (forwarded, dropped or skipped as malformed)
FrameRead ==
    /\ inputs' = inputs - 1
    /\ UNCHANGED <<connPc, readerPc, writerPc, connOpen>>

C22_Step ==
    FrameRead =>
        /\ UNCHANGED <<clients, rooms, currentRoomID, send, closed, evict, hubPending,
                       panicked, globalUsers, roomUsers, roomMessages, roomCount>>
        /\ Len(routeMessage) = RouteCap => routeMessage' = routeMessage
        /\ routeMessage' # routeMessage =>
              /\ Len(routeMessage') = Len(routeMessage) + 1
              /\ SubSeq(routeMessage', 1, Len(routeMessage)) = routeMessage

\* C22: the reader never waits for the hub: with the hub's inbound queue full the
\* frame is dropped, the connection stays registered, in its room and open, and
\* the reader is back at reading; a malformed frame is skipped in the same way.
C22_ReaderNeverBlocks == []C22_NeverBlocks /\ [][C22_Step]_vars

\* a reader has a frame to read while the hub's inbound queue is full
C22_Witness ==
    /\ Len(routeMessage) = RouteCap
    /\ \E c \in clients : FrameReady(c) /\ c \in MembersOf(currentRoomID[c])

\* the store did not take the text, or did not count it
TextStoreFailed(r) ==
    /\ TextFor(r)
    /\ roomMessages'[r] = roomMessages[r] \/ roomCount'[r] = roomCount[r]

\* c is registered into a room with history and is sent no recent_messages
JoinGetFailed(c) ==
    /\ c \notin clients /\ c \in clients'
    /\ currentRoomID[c] # NoRoom
    /\ roomMessages[currentRoomID[c]] # <<>>
    /\ AppendedOfType(c, RecentMessagesType) = <<>>

C30_Step ==
    /\ \A r \in Rooms :
          TextStoreFailed(r) =>
              \A c \in Conns :
                  /\ (c \in MembersOf(r) /\ HasRoom(c))
                        => Copies(c, Head(routeMessage).msg) = 1
                  /\ c \notin MembersOf(r) => Copies(c, Head(routeMessage).msg) = 0
    /\ \A c \in Conns :
          JoinGetFailed(c) =>
              /\ c \in MembersAfter(currentRoomID[c])
              /\ currentRoomID'[c] = currentRoomID[c]
              /\ \A d \in MembersAfter(currentRoomID[c]) :
                    Len(send[d]) + 2 <= SendCap =>
                        \E i \in 1..Len(Appended(d)) :
                            /\ Appended(d)[i].type = UserJoinedMessageType
                            /\ Appended(d)[i].username = username[c]
                            /\ Appended(d)[i].roomId = currentRoomID[c]

\* C30: a failing store call does not abort the in-memory part of a handler: a
\* text_message whose addRecentMessage or incrementMessageCounter failed is still
\* fanned out to the room, and a connection whose getRecentMessages failed on the
\* join is still a member of the room and user_joined is still broadcast.
C30_StoreFailureNotFatal == [][C30_Step]_vars

\* the store missed a text that sits in a queue, and a connection registered into
\* the room with history holds the join envelopes without recent_messages
C30_Witness ==
    /\ Len(roomMessages["r1"]) # roomCount["r1"]
    /\ \E c \in Conns : \E i \in 1..Len(send[c]) : send[c][i].type = TextMessageType
    /\ \E c \in MembersOf("r1") :
          /\ wire[c] = NoFrame
          /\ roomMessages["r1"] # <<>>
          /\ TypesOf(send[c]) =
                <<GlobalUserCountUpdateType, UserJoinedMessageType,
                  UserListUpdateType, RoomStatsUpdateType>>

\* C26: a panic inside a handler is contained: the hub keeps running and takes
\* the events that follow, so a connection handed to hub.register is taken from
\* that channel whatever happened in the handlers before.
C26_HubKeepsRunning ==
    \A c \in Conns : (connPc[c] = "registering") ~> (connPc[c] # "registering")

\* the hub handles a request_room_stats read on the registered connection c whose
\* target (the envelope's roomId, else the room of c) is r
StatsFrom(c, r) ==
    /\ HubHandles(RequestStatsType)
    /\ Head(routeMessage).from = c
    /\ c \in clients
    /\ r = IF Head(routeMessage).msg.roomId = NoRoom
           THEN currentRoomID[c]
           ELSE Head(routeMessage).msg.roomId

\* e is the room_stats_update of room r as the store has it
IsStatsOf(e, r) ==
    /\ e.type = RoomStatsUpdateType
    /\ e.roomId = r
    /\ e.data.active = Cardinality(roomUsers[r])
    /\ e.data.count = roomCount[r]

\* the step hands exactly one room_stats_update of r to c and nothing to anybody
\* else
StatsSentOnlyTo(c, r) ==
    /\ \A d \in Conns \ {c} : send'[d] = send[d]
    /\ \/ /\ Len(Appended(c)) = 1
          /\ IsStatsOf(Appended(c)[1], r)
          /\ hubPending' = <<>>
       \/ /\ send'[c] = send[c]
          /\ Len(hubPending') = 1
          /\ hubPending'[1].to = c
          /\ IsStatsOf(hubPending'[1].env, r)

C31_Step ==
    \A c \in Conns, r \in Rooms :
        StatsFrom(c, r) => StatsSentOnlyTo(c, r) /\ HubStoreUnchanged

\* C31: for a request_room_stats the hub enqueues exactly one room_stats_update,
\* to the requesting connection only, for the envelope's roomId or, when that is
\* empty, the requester's currentRoomId; the request changes no hub or store state
\* and no other connection receives anything.
C31_StatsToRequester == [][C31_Step]_vars

C31_StepSole ==
    \A c \in Conns, r \in Rooms :
        (StatsFrom(c, r) /\ SoleName(c)) => StatsSentOnlyTo(c, r) /\ HubStoreUnchanged

\* ... which holds for a requester whose username no other registered connection
\* has
C31_StatsToRequesterSoleName == [][C31_StepSole]_vars

\* what the writer of a closed queue puts on the transport: the queued envelopes,
\* oldest first, and the close frame only once the queue is drained, on its return
C32_Step ==
    \A c \in Conns :
        (closed[c] /\ wire'[c] # wire[c]) =>
            \/ /\ send[c] # <<>>
               /\ wire'[c] = Head(send[c])
               /\ send'[c] = Tail(send[c])
               /\ writerPc'[c] = "running"
            \/ /\ send[c] = <<>>
               /\ wire'[c] = CloseFrame
               /\ writerPc'[c] = "done"
               /\ ~connOpen'[c]

C32_WriterDrains == [][C32_Step]_vars

\* under fair scheduling the writer of a closed queue returns
C32_WriterExits ==
    \A c \in Conns : closed[c] ~> (writerPc[c] = "done")

\* ... and so does the reader
C32_ReaderExits ==
    \A c \in Conns : closed[c] ~> (readerPc[c] = "done")

\* C32: after the hub closes a connection's outbound queue, the writer first
\* transmits every envelope still queued, in order, then sends a close frame and
\* exits, and the reader subsequently exits on its read error; neither task runs
\* forever.
C32_DrainCloseExit == C32_WriterDrains /\ C32_WriterExits /\ C32_ReaderExits

\* RegisterClient gives up on c: it returns without the hub having taken c
TimedOut(c) ==
    /\ connPc[c] = "registering"
    /\ connPc'[c] = "started"
    /\ c \notin clients'

C33_Step ==
    \A c \in Conns :
        /\ TimedOut(c) =>
              /\ closed'[c] /\ ~connOpen'[c]
              /\ send'[c] = send[c]
              /\ UNCHANGED <<clients, rooms, currentRoomID, globalUsers, roomUsers,
                             roomMessages, roomCount>>
        /\ connPc[c] = "started" => connPc'[c] = "started"
        /\ (c \notin clients /\ c \in clients') => connPc[c] = "registering"
        /\ (c \notin clients /\ UnregisterEvent(c)) =>
              /\ UNCHANGED <<clients, rooms, currentRoomID, send, closed, globalUsers,
                             roomUsers, roomMessages, roomCount, hubPending>>
              /\ ~panicked'

\* a connection outside hub.clients is in no room
C33_NotInRoom ==
    \A c \in Conns \ clients : \A r \in DOMAIN rooms : c \notin rooms[r]

\* C33: when handing a new connection to the hub times out, the connection is
\* abandoned: its queue and transport are closed; it was not and will not be put
\* into hub.clients (only a connection still inside RegisterClient is registered,
\* and none returns there), it is in no room, the step writes nothing to the store,
\* and the unregister its reader posts later is ignored without a second close.
C33_TimeoutAbandons == []C33_NotInRoom /\ [][C33_Step]_vars

\* the reader of an abandoned connection has had its unregister taken: the queue is
\* closed though nothing was ever queued or written
C33_Witness ==
    \E c \in Conns :
        /\ readerPc[c] = "done"
        /\ closed[c] /\ send[c] = <<>> /\ wire[c] = NoFrame
        /\ c \notin clients

\* C34: between hub events every member of hub.rooms[r] is in hub.clients and has
\* currentRoomId r; so no connection is a member of two rooms and no unregistered
\* connection remains in a room.
C34_MembersRegisteredInRoom ==
    HubAtSelect =>
        \A r \in DOMAIN rooms : \A c \in rooms[r] :
            c \in clients /\ currentRoomID[c] = r

\* a connection is a member of its room after another one, which had been
\* registered, was unregistered
C34_Witness ==
    /\ HubAtSelect
    /\ \E c \in clients : c \in MembersOf(currentRoomID[c])
    /\ \E d \in Conns \ clients : closed[d] /\ send[d] # <<>>

C35_Step ==
    /\ ~panicked'
    /\ \A c \in Conns : closed'[c] => Len(send'[c]) <= Len(send[c])
    /\ \A i \in 1..Len(hubPending') : ~closed'[hubPending'[i].to]

\* C35: the hub never enqueues onto a queue that has been closed: no step
\* lengthens a closed queue, no handler waits to send to one, and no send on a
\* closed queue (a panic) happens, whatever the interleaving of registrations,
\* timeouts, unregisters and inbound envelopes.
C35_NoSendOnClosed == [][C35_Step]_vars

\* the hub is about to handle an envelope read on a connection that has been
\* unregistered since, its queue closed
C35_Witness ==
    /\ HubAtSelect
    /\ routeMessage # <<>>
    /\ closed[Head(routeMessage).from]
    /\ Head(routeMessage).from \notin clients
    /\ Head(routeMessage).msg.type = RequestStatsType

\* the step stores, counts or fans out the text_message at the head of
\* routeMessage in room r
TextPostedIn(r) ==
    /\ HubHandles(TextMessageType)
    /\ Head(routeMessage).msg.roomId = r
    /\ \/ roomMessages'[r] # roomMessages[r]
       \/ roomCount'[r] # roomCount[r]
       \/ \E c \in Conns : Copies(c, Head(routeMessage).msg) > 0

C36_Step ==
    \A r \in Rooms : TextPostedIn(r) => Head(routeMessage).from \in MembersOf(r)

\* C36: a text_message is appended to the history of room r, counted in
\* room:r:message_count and fanned out in r only if the connection it was read on
\* is a member of hub.rooms[r] when the hub handles it.
C36_PostOnlyAsMember == [][C36_Step]_vars

C37_Step ==
    \A r \in Rooms :
        (TextPostedIn(r) /\ Head(routeMessage).from \in clients)
            => currentRoomID[Head(routeMessage).from] = r

\* C37: a text_message sent without roomId is stored and fanned out in the room
\* its connection is in once the hub has handled all earlier frames of that
\* connection, under every interleaving of the reader and the hub.
C37_FilledRoomIsCurrent == [][C37_Step]_vars

\* no handler waits in a send in these behaviours
RaceHubNeverWaits == hubPending = <<>>

\* the hub handles a join_room, leave_room or request_room_stats read on c
ControlFrom(c) ==
    /\ \/ HubHandles(JoinRoomMessageType)
       \/ HubHandles(LeaveRoomMessageType)
       \/ HubHandles(RequestStatsType)
    /\ Head(routeMessage).from = c

\* the step leaves the membership of d alone and answers nothing to d
Untouched(d) ==
    /\ currentRoomID'[d] = currentRoomID[d]
    /\ \A r \in Rooms : d \in MembersAfter(r) <=> d \in MembersOf(r)
    /\ AppendedOfType(d, ErrorMessageType) = <<>>
    /\ AppendedOfType(d, RecentMessagesType) = <<>>
    /\ HubHandles(RequestStatsType) => Appended(d) = <<>>
    /\ \A i \in 1..Len(hubPending') : hubPending'[i].to # d

C38_Step ==
    \A c \in Conns : ControlFrom(c) => \A d \in Conns \ {c} : Untouched(d)

\* C38: an inbound join_room, leave_room or request_room_stats changes the room
\* membership of, and is answered to, only the connection it was received on,
\* also when another registered connection has the same username.
C38_ActsOnSender == [][C38_Step]_vars

C38_StepSole ==
    \A c \in Conns :
        (ControlFrom(c) /\ SoleName(c)) => \A d \in Conns \ {c} : Untouched(d)

\* ... which holds when no other registered connection has the sender's username
C38_ActsOnSenderSoleName == [][C38_StepSole]_vars

\* no registered connection has the username of the envelope the hub takes
NoMatch ==
    /\ HubTakesMessage
    /\ findClientByUsername(Head(routeMessage).msg.username) = {NoClient}

\* the connection the envelope was read on has been unregistered since
LateFrame ==
    /\ HubTakesMessage
    /\ Head(routeMessage).from \notin clients

\* the step does nothing but take the envelope from hub.routeMessage
Discarded ==
    UNCHANGED <<clients, rooms, currentRoomID, send, closed, evict, hubPending,
                panicked, globalUsers, roomUsers, roomMessages, roomCount>>

C39_Step == (NoMatch \/ LateFrame) => Discarded

\* C39: an inbound envelope whose username matches no registered connection is
\* discarded: it changes neither hub.rooms nor the store and is fanned out to
\* nobody; in particular an envelope still waiting in hub.routeMessage when its
\* connection is unregistered has no effect once it is handled.
C39_UnknownSenderDiscarded == [][C39_Step]_vars

C39_StepNoMatch == NoMatch => Discarded

\* ... which holds of the envelopes whose username no registered connection has
C39_NoMatchDiscarded == [][C39_StepNoMatch]_vars

\* ---- C40
\* the hub keyed by user id takes the unregister of the registered client c
IdUnregisters(c) ==
    /\ idPc = "select"
    /\ idReader[c] = "unregistering"
    /\ idReader'[c] = "done"
    /\ c \in idClients

\* the rooms of c that exist in the hub
IdRoomsOf(c) == idClientRooms[c] \cap DOMAIN idRooms

\* C40: in the hub keyed by user id, handling the unregister of a client that is
\* a member of at least one existing room completes: the hub does not wait for
\* its own lock, it is back at its event loop with the lock free, and the
\* members that remain in each of those rooms are sent user_left about the client.
C40_Step ==
    \A c \in Conns :
        (IdUnregisters(c) /\ IdRoomsOf(c) # {}) =>
            /\ idPc' = "select"
            /\ idMu' = "free"
            /\ \A r \in IdRoomsOf(c) : \A d \in idRooms[r] \ {c} :
                  Len(idSend[d]) < IdSendCap =>
                      idSend'[d] # idSend[d]
                      /\ idSend'[d][Len(idSend'[d])] = WsMsg("user_left", UserID(c), r)
C40_UnregisterCompletes == [][C40_Step]_vars

\* the unregister of a client that is in no room completes
C40_StepNoRoom ==
    \A c \in Conns :
        (IdUnregisters(c) /\ IdRoomsOf(c) = {}) => idPc' = "select" /\ idMu' = "free"
C40_NoRoomCompletes == [][C40_StepNoRoom]_vars

====
